---- MODULE Spec2Model ----
(***************************************************************************)
(* A model of the ph-operator control loops and of the multi-cluster       *)
(* orchestrator (phkaiser13/Peitch).                                       *)
(*                                                                         *)
(*   Release controller   k8s/operators/ph_operator/src/controllers/       *)
(*                        release_controller.rs, metrics_analyzer.rs       *)
(*   AutoHeal controller  .../controllers/autoheal_controller.rs           *)
(*   DR controller        .../controllers/dr_controller.rs                 *)
(*   Preview controller   .../controllers/preview_controller.rs            *)
(*   Orchestrator         src/modules/multi_cluster_orchestrator/src/      *)
(*                        cluster_manager.rs, strategies.rs                *)
(*   Git sync engine      src/modules/sync_engine/src/sync.rs              *)
(*                                                                         *)
(* Each controller has its own specification (SpecRelease, SpecAutoHeal,   *)
(* SpecDR, SpecPreview, SpecOrchestrator, ...); the variables of the other *)
(* controllers stay at their initial value.  Pure functions of the code    *)
(* (metric history, trend analysis, expression evaluation) are applied by  *)
(* specifications of their own, whose Init draws the inputs.               *)
(* Strings the code parses are sequences of one-character strings, so the  *)
(* parsers are modelled by what they do.  Instants are whole seconds.      *)
(***************************************************************************)
EXTENDS Integers, Sequences, FiniteSets, TLC

VARIABLES
    now,          \* wall clock (Utc::now()), in seconds
    relSpec,      \* the phRelease spec and annotations, as the user wrote them
    relStatus,    \* the phRelease status subresource on the apiserver
    relCluster,   \* finalizer of the phRelease and the cluster objects it owns
    relErr,       \* the Err a reconcile returned and on_error has not yet handled
    relMetrics,   \* the process-wide Prometheus registry (release part)
    relLast,      \* history: what the most recent release handler run did
    rules,        \* the phAutoHealRule objects on the apiserver
    cache,        \* Context.rules_cache : HashMap<String, phAutoHealRule>
    tasks,        \* the process_rule tasks spawned by handle_webhook
    ahLog,        \* history: jobs created and executions completed, per rule
    drSpec,       \* the PhgitDisasterRecovery spec
    drMeta,       \* its annotations
    drStatus,     \* its status subresource
    drCluster,    \* what the failover has done to the primary and the DR cluster
    drErr,        \* the Err a DR reconcile returned and on_error has not yet handled
    drLast,       \* history: what the most recent DR handler run did
    drHist,       \* history: health checks made and states reached
    pvObj,        \* the phPreview objects on the apiserver, per slot
    pvNamespaces, \* the names of the Namespace objects of the cluster
    pvMetrics,    \* the process-wide Prometheus registry (preview part)
    mcIn,         \* the targets and the Action given to ClusterManager::execute_action
    mcRun,        \* execute_action: its plan, the stage it is in, its results
    mcRes,        \* the resources of the application on each cluster
    mhIn,         \* the names of the metrics of spec.analysis.metrics
    mhRun,        \* status.analysisRun.metricHistory over the analysis passes
    anIn,         \* the arguments of one call of PrometheusClient::analyze
    anOut,        \* the AnalysisResult it returns
    whResp,       \* the last request to POST /webhook and the answer it got
    exIn,         \* the expression given to PrometheusClient::evaluate_simple_expression
    exOut,        \* what it returns
    duIn,         \* the string given to the two duration parsers
    duOut,        \* what parse_duration_str and parse_duration return for it
    rpIn,         \* canary.trafficPercent of a Release set up without a traffic manager
    rpOut,        \* the replica counts initial_setup patches for it
    syRepo,       \* the commit of branch main in the source and the target repository
    syFile,       \* .git/ph_sync_state.json of the source repository
    syLast        \* history: what the most recent run of the sync engine did

relVars == <<relSpec, relStatus, relCluster, relErr, relMetrics, relLast>>
ahVars  == <<rules, cache, tasks, ahLog>>
drVars  == <<drSpec, drMeta, drStatus, drCluster, drErr, drLast, drHist>>
pvVars  == <<pvObj, pvNamespaces, pvMetrics>>
mcVars  == <<mcIn, mcRun, mcRes>>
syVars  == <<syRepo, syFile, syLast>>
auxVars == <<duIn, duOut, rpIn, rpOut, syVars>>
fnVars  == <<mhIn, mhRun, anIn, anOut, whResp, exIn, exOut, auxVars>>
restVars == <<drVars, pvVars, mcVars, fnVars>>
vars    == <<now, relSpec, relStatus, relCluster, relErr, relMetrics, relLast,
             rules, cache, tasks, ahLog,
             drSpec, drMeta, drStatus, drCluster, drErr, drLast, drHist,
             pvObj, pvNamespaces, pvMetrics, mcIn, mcRun, mcRes, mhIn, mhRun,
             anIn, anOut, whResp, exIn, exOut, duIn, duOut, rpIn, rpOut,
             syRepo, syFile, syLast>>

(***************************************************************************)
(* Bounds of the model.                                                    *)
(***************************************************************************)
MaxTime == 2          \* the clock runs 0..MaxTime
MaxThreshold == 2     \* analysis.threshold and analysis.maxFailures in 0..MaxThreshold
MaxMetrics == 2       \* analysis.metrics has 1..MaxMetrics entries
MaxLatencyObs == 2    \* observations of the latency histogram that are counted
MaxTasks == 2         \* process_rule tasks spawned over a run
MaxAlerts == 2        \* alerts in one webhook payload

NoTime == -1          \* an absent (None) timestamp

(***************************************************************************)
(* Duration strings.                                                       *)
(***************************************************************************)
Digits == {"0", "1", "2", "3", "4", "5", "6", "7", "8", "9"}

DigitVal(c) ==
    CASE c = "0" -> 0 [] c = "1" -> 1 [] c = "2" -> 2 [] c = "3" -> 3
      [] c = "4" -> 4 [] c = "5" -> 5 [] c = "6" -> 6 [] c = "7" -> 7
      [] c = "8" -> 8 [] c = "9" -> 9

RECURSIVE DecVal(_)
DecVal(s) ==
    IF s = <<>> THEN 0
    ELSE 10 * DecVal(SubSeq(s, 1, Len(s) - 1)) + DigitVal(s[Len(s)])

AllDigits(s) == \A i \in 1..Len(s) : s[i] \in Digits

\* str::trim: drop leading and trailing white space
RECURSIVE TrimLeft(_)
TrimLeft(s) ==
    IF s # <<>> /\ s[1] = " " THEN TrimLeft(Tail(s)) ELSE s

RECURSIVE TrimRight(_)
TrimRight(s) ==
    IF s # <<>> /\ s[Len(s)] = " " THEN TrimRight(SubSeq(s, 1, Len(s) - 1)) ELSE s

Trim(s) == TrimRight(TrimLeft(s))

\* str::parse::<u64>: an optional '+' and then one or more digits
ParseU64(s) ==
    LET d == IF s # <<>> /\ s[1] = "+" THEN Tail(s) ELSE s
    IN  IF d # <<>> /\ AllDigits(d) THEN [ok |-> TRUE, val |-> DecVal(d)]
        ELSE [ok |-> FALSE, val |-> 0]

\* str::parse::<i64> of a string known to hold digits only
ParseI64Digits(s) ==
    IF s # <<>> /\ AllDigits(s) THEN [ok |-> TRUE, val |-> DecVal(s)]
    ELSE [ok |-> FALSE, val |-> 0]

UnitSecs(u) == CASE u = "s" -> 1 [] u = "m" -> 60 [] u = "h" -> 3600

\* release_controller.rs parse_duration_str
parse_duration_str(str) ==
    LET s == Trim(str)
        n == IF s = <<>> THEN [ok |-> FALSE, val |-> 0]
             ELSE ParseU64(SubSeq(s, 1, Len(s) - 1))
    IN  IF s # <<>> /\ s[Len(s)] \in {"s", "m", "h"} /\ n.ok
        THEN [ok |-> TRUE, secs |-> n.val * UnitSecs(s[Len(s)])]
        ELSE [ok |-> FALSE, secs |-> 0]

\* index of the first character that is not a digit, Len(s)+1 when there is none
RECURSIVE FirstNonDigit(_, _)
FirstNonDigit(s, i) ==
    IF i > Len(s) THEN i
    ELSE IF s[i] \notin Digits THEN i ELSE FirstNonDigit(s, i + 1)

\* autoheal_controller.rs parse_duration
parse_duration(str) ==
    LET s == Trim(str)
        e == FirstNonDigit(s, 1)
        numeric_str == SubSeq(s, 1, e - 1)
        unit_str == SubSeq(s, e, Len(s))
        value == ParseI64Digits(numeric_str)
    IN  IF value.ok /\ Len(unit_str) = 1 /\ unit_str[1] \in {"s", "m", "h"}
        THEN [ok |-> TRUE, secs |-> value.val * UnitSecs(unit_str[1])]
        ELSE [ok |-> FALSE, secs |-> 0]

(***************************************************************************)
(* Metrics analyzer: PrometheusClient::analyze.                            *)
(* A sample is what one query of one metric meets: the outcome of          *)
(* execute_prometheus_query, the outcome of evaluate_simple_expression on  *)
(* the substituted onSuccess expression, and whether analyze_trend returns *)
(* a slope above trendThreshold.                                           *)
(***************************************************************************)
QueryErrors == {"http_error", "malformed_json", "status_error"}

MetricSamples ==
    {[query |-> q, cond |-> "true", slopeAbove |-> FALSE] : q \in QueryErrors \cup {"inf"}}
    \cup {[query |-> "finite", cond |-> "true", slopeAbove |-> b] : b \in BOOLEAN}
    \cup {[query |-> "finite", cond |-> c, slopeAbove |-> FALSE] : c \in {"false", "error"}}

\* evaluate_success_condition: an infinite value is rejected before evaluation
evaluate_success_condition(sample) ==
    IF sample.query = "inf" THEN "error" ELSE sample.cond

analyze_TrendFirst(sample, predictive) ==
    IF sample.query \in QueryErrors THEN "Inconclusive"
    ELSE LET success_result == evaluate_success_condition(sample)
         IN  IF success_result = "error" THEN "Inconclusive"
             ELSE IF predictive /\ sample.slopeAbove THEN "TrendingWorse"
             ELSE IF success_result = "true" THEN "Success" ELSE "Failure"

analyze(sample, predictive) ==
    IF sample.query \in QueryErrors THEN "Inconclusive"
    ELSE LET success_result == evaluate_success_condition(sample)
         IN  CASE success_result = "true" ->
                    IF predictive /\ sample.slopeAbove THEN "TrendingWorse" ELSE "Success"
               [] success_result = "false" -> "Failure"
               [] success_result = "error" -> "Inconclusive"

\* run_metrics_analysis: the metrics are analysed in order, one result each
run_metrics_analysis(samples, predictive) ==
    [i \in 1..Len(samples) |-> analyze(samples[i], predictive)]

(***************************************************************************)
(* Release controller.                                                     *)
(***************************************************************************)
Phases == {"Progressing", "Paused", "Succeeded", "Failed", "Promoting", "RollingBack"}
NoPhase == "None"     \* status.phase absent

IntervalStrings == { <<" ", "2", "s">>, <<"1", "x">> }

\* The settings of a phRelease.  Fields the code never reads under the other
\* settings are held at one value, which loses no behaviour.
ReleaseSpecs ==
    { s \in [ strategyCanary : BOOLEAN,  \* strategy.type = Canary with a canary block
              hasAnalysis : BOOLEAN,     \* canary.analysis present
              autoPromote : BOOLEAN,
              threshold : 0..MaxThreshold,
              maxFailures : 0..MaxThreshold,
              nMetrics : 1..MaxMetrics,
              predictive : BOOLEAN,      \* predictiveAnalysis.enabled on the metrics
              interval : IntervalStrings,
              skipSigCheck : BOOLEAN,    \* annotation ph.io/skip-sig-check = "true"
              sigConfigured : BOOLEAN ] :    \* security.signatureVerification present
        /\ s.skipSigCheck => ~s.sigConfigured
        /\ ~s.strategyCanary => ~s.hasAnalysis
        /\ s.hasAnalysis => (s.skipSigCheck \/ s.sigConfigured)
        /\ (~s.hasAnalysis \/ ~parse_duration_str(s.interval).ok) =>
                /\ ~s.autoPromote /\ ~s.predictive
                /\ s.threshold = 1 /\ s.maxFailures = 1 /\ s.nMetrics = 1
        /\ ~s.hasAnalysis => s.interval = <<" ", "2", "s">> }

\* phReleaseStatus::default()
DefaultStatus ==
    [ phase |-> NoPhase, successCount |-> 0, failureCount |-> 0,
      lastCheck |-> NoTime, startSet |-> FALSE, trafficSplit |-> "none",
      stableVersion |-> "none" ]

\* What the environment answers during one handler run.  A run reads an answer
\* only on the path it takes, so an answer is enumerated only in the states
\* where the run can ask for it: the finalizer patch while the finalizer is
\* missing, the signature check when it is configured and not skipped, the
\* cluster calls in the phases that make them, the metric samples when an
\* analysis pass can run.
DefaultSamples(n) == [i \in 1..n |-> [query |-> "finite", cond |-> "true", slopeAbove |-> FALSE]]

ReleaseEnvs(spec, status, cluster) ==
    LET n == spec.nMetrics
        E(fin, sig, get, mesh, fail, upd, samples) ==
            [ finOk |-> fin,             \* the finalizer patch succeeds
              sigOk |-> sig,             \* verify_image_signature_for_release
              getErr |-> get,            \* deployments.get(canary) fails for another reason
              mesh |-> mesh,             \* get_traffic_manager_client finds a CRD
              apiFailAt |-> fail,        \* which cluster patch fails (0: none)
              updOk |-> upd,             \* patch_status succeeds
              samples |-> samples ]      \* what the metric queries meet
        active == status.phase \in {NoPhase, "Progressing", "Promoting", "RollingBack"}
        setup == status.phase \in {NoPhase, "Progressing"}
    IN  IF ~cluster.finalizer
        THEN {E(f, TRUE, FALSE, FALSE, 0, TRUE, DefaultSamples(n)) : f \in BOOLEAN}
        ELSE {E(TRUE, TRUE, FALSE, FALSE, 0, u, DefaultSamples(n)) : u \in BOOLEAN}
             \cup {E(TRUE, FALSE, FALSE, FALSE, 0, u, DefaultSamples(n)) :
                      u \in {b \in BOOLEAN : spec.sigConfigured}}
             \cup {E(TRUE, TRUE, g, m, f, u, DefaultSamples(n)) :
                      g \in {b \in BOOLEAN : setup \/ ~b}, m \in BOOLEAN,
                      f \in {k \in 0..5 : active}, u \in BOOLEAN}
             \cup {E(TRUE, TRUE, FALSE, FALSE, 0, u, sm) :
                      u \in BOOLEAN,
                      sm \in {x \in [1..n -> MetricSamples] :
                                 setup /\ cluster.canaryExists /\ spec.hasAnalysis}}

\* the result of a handler run
Outcome(st, canary, err, obs, succ, fail, last) ==
    [ status |-> st, canaryExists |-> canary, err |-> err,
      obs |-> obs, succeeded |-> succ, failed |-> fail, last |-> last ]

\* history of a handler run: which handler, the analysis results and the metrics
\* whose query failed, the phase and counters it read, whether patch_status
\* succeeded, and the phase and counters of the status it built
Last(kind, results, qfail, status, wrote, new_status) ==
    [ kind |-> kind, results |-> results, qfail |-> qfail,
      from |-> status.phase, sc0 |-> status.successCount, fc0 |-> status.failureCount,
      wrote |-> wrote,
      to |-> IF wrote THEN new_status.phase ELSE status.phase,
      sc |-> new_status.successCount, fc |-> new_status.failureCount ]

QueryFailed(kind, e) ==
    IF kind = "analysis" THEN {i \in DOMAIN e.samples : e.samples[i].query \in QueryErrors}
    ELSE {}

\* update_status as the last call of a handler: Patch::Apply of the whole status
update_status(status, new_status, canary, e, obs, succ, fail, kind, results) ==
    IF e.updOk
    THEN Outcome(new_status, canary, "none", obs, succ, fail,
                 Last(kind, results, QueryFailed(kind, e), status, TRUE, new_status))
    ELSE Outcome(status, canary, "StatusUpdateError", obs, 0, 0,
                 Last(kind, results, QueryFailed(kind, e), status, FALSE, new_status))

\* a handler that returns without writing the status
NoWrite(status, canary, err, kind) ==
    Outcome(status, canary, err, 0, 0, 0,
            Last(kind, <<>>, {}, status, FALSE, status))

\* the counter update without the reset of the other counter
UpdateCounters_KeepOther(results, sc, fc) ==
    LET all_metrics_passed == \A i \in 1..Len(results) : results[i] = "Success"
        has_inconclusive == \E i \in 1..Len(results) : results[i] = "Inconclusive"
    IN  IF all_metrics_passed THEN [sc |-> sc + 1, fc |-> fc]
        ELSE IF has_inconclusive THEN [sc |-> sc, fc |-> fc]
        ELSE [sc |-> sc, fc |-> fc + 1]

\* apply_release, counter update of an analysis pass without a TrendingWorse metric
UpdateCounters(results, sc, fc) ==
    LET all_metrics_passed == \A i \in 1..Len(results) : results[i] = "Success"
        has_inconclusive == \E i \in 1..Len(results) : results[i] = "Inconclusive"
    IN  IF all_metrics_passed THEN [sc |-> sc + 1, fc |-> 0]
        ELSE IF has_inconclusive THEN [sc |-> sc, fc |-> fc]
        ELSE [sc |-> 0, fc |-> fc + 1]

\* DecidePhase with the autoPromote flag ignored
DecidePhase_AlwaysPromote(sc, fc, threshold, maxFailures, autoPromote, cur) ==
    IF sc >= threshold THEN "Promoting"
    ELSE IF fc >= maxFailures THEN "RollingBack"
    ELSE cur

\* DecidePhase rolling back one failure late
DecidePhase_LateRollback(sc, fc, threshold, maxFailures, autoPromote, cur) ==
    IF sc >= threshold THEN (IF autoPromote THEN "Promoting" ELSE "Paused")
    ELSE IF fc > maxFailures THEN "RollingBack"
    ELSE cur

\* apply_release, "Decide the next phase based on thresholds"
DecidePhase(sc, fc, threshold, maxFailures, autoPromote, cur) ==
    IF sc >= threshold THEN (IF autoPromote THEN "Promoting" ELSE "Paused")
    ELSE IF fc >= maxFailures THEN "RollingBack"
    ELSE cur

\* the analysis loop of apply_release in phase Progressing (canary.analysis present)
paused_status_Counted(status, c) ==
    [status EXCEPT !.phase = "Paused", !.successCount = c.sc, !.failureCount = c.fc]

\* the status written when a metric is TrendingWorse: a clone of the status
\* read with phase Paused; the counters and lastCheck are the ones read
paused_status(status, c) ==
    [status EXCEPT !.phase = "Paused"]

analysis_pass(spec, status, canary, t, samples, e) ==
    LET interval == parse_duration_str(spec.interval)
        should_analyze == status.lastCheck = NoTime \/ t >= status.lastCheck + interval.secs
        results == run_metrics_analysis(samples, spec.predictive)
        is_trending_worse == \E i \in 1..Len(results) : results[i] = "TrendingWorse"
        c == UpdateCounters(results, status.successCount, status.failureCount)
        phase == DecidePhase(c.sc, c.fc, spec.threshold, spec.maxFailures,
                             spec.autoPromote, status.phase)
        obs == IF (c.sc >= spec.threshold \/ c.fc >= spec.maxFailures) /\ status.startSet
               THEN 1 ELSE 0
    IN  IF ~interval.ok THEN NoWrite(status, canary, "InvalidIntervalFormat", "analysis_error")
        ELSE IF ~should_analyze THEN NoWrite(status, canary, "none", "wait")
        ELSE IF is_trending_worse
        THEN update_status(status, paused_status(status, c),
                           canary, e, 0, 0, 0, "analysis", results)
        ELSE update_status(status,
                           [status EXCEPT !.phase = phase, !.successCount = c.sc,
                                          !.failureCount = c.fc, !.lastCheck = t],
                           canary, e, obs, 0, 0, "analysis", results)

\* initial_setup: Service, stable and canary Deployments, traffic split, status
initial_setup(spec, status, canary, e) ==
    LET calls == IF e.mesh THEN 4 ELSE 5
        new_status == [DefaultStatus EXCEPT !.phase = "Progressing", !.startSet = TRUE,
                                            !.trafficSplit = "split",
                                            !.stableVersion = "existing"]
    IN  IF ~spec.strategyCanary THEN NoWrite(status, canary, "UnsupportedStrategy", "setup")
        ELSE IF e.apiFailAt \in 1..calls
        THEN NoWrite(status, canary \/ e.apiFailAt > 3, "KubeError", "setup")
        ELSE update_status(status, new_status, TRUE, e, 0, 0, 0, "setup", <<>>)

\* the status promote_release writes: stable_version is spec.version
promoted_status(status) ==
    [status EXCEPT !.phase = "Succeeded", !.trafficSplit = "stable: 100%, canary: 0%",
                   !.stableVersion = "spec.version"]

\* promote_release
promote_release(status, canary, e) ==
    LET calls == IF e.mesh THEN 1 ELSE 2
    IN  IF e.apiFailAt \in 1..calls THEN NoWrite(status, canary, "KubeError", "promote")
        ELSE update_status(status, promoted_status(status),
                           canary, e, 0, 1, 0, "promote", <<>>)

\* rollback_release
rollback_release(status, canary, e) ==
    LET calls == IF e.mesh THEN 1 ELSE 2
    IN  IF e.apiFailAt \in 1..calls THEN NoWrite(status, canary, "KubeError", "rollback")
        ELSE update_status(status,
                           [status EXCEPT !.phase = "Failed",
                                          !.trafficSplit = "stable: 100%, canary: 0%"],
                           canary, e, 0, 0, 1, "rollback", <<>>)

\* apply_release, "1. MANDATORY SIGNATURE VERIFICATION (Pre-flight check)"
PreflightFails(spec, e) ==
    ~spec.skipSigCheck /\ (~spec.sigConfigured \/ ~e.sigOk)

\* apply_release
apply_release(spec, status, canary, t, samples, e) ==
    LET current_phase == IF status.phase = NoPhase THEN "Progressing" ELSE status.phase
    IN  IF PreflightFails(spec, e)
        THEN update_status(status,
                           [status EXCEPT !.phase = "Failed", !.trafficSplit = "sigError"],
                           canary, e, 0, 0, 0, "preflight", <<>>)
        ELSE CASE current_phase = "Progressing" ->
                    IF ~canary \/ e.getErr THEN initial_setup(spec, status, canary, e)
                    ELSE IF ~spec.strategyCanary
                    THEN NoWrite(status, canary, "UnsupportedStrategy", "analysis_error")
                    ELSE IF spec.hasAnalysis
                    THEN analysis_pass(spec, status, canary, t, samples, e)
                    ELSE NoWrite(status, canary, "none", "manual")
               [] current_phase = "Promoting" -> promote_release(status, canary, e)
               [] current_phase = "RollingBack" -> rollback_release(status, canary, e)
               [] current_phase \in {"Succeeded", "Failed", "Paused"} ->
                    NoWrite(status, canary, "none", "terminal")

\* on_error: the error policy of the release Controller
on_error(status, canary, e) ==
    LET new_status == [status EXCEPT !.phase = "Failed", !.trafficSplit = "error"]
        out == update_status(status, new_status, canary, e, 0, 0, 0, "on_error", <<>>)
    IN  [out EXCEPT !.err = "none"]

\* reconcile: the kube-rs finalizer helper around apply_release.  An object
\* without the finalizer only gets it added; every Err becomes a KubeError.
release_reconcile(spec, status, cluster, t, samples, e) ==
    IF ~cluster.finalizer
    THEN [ out |-> NoWrite(status, cluster.canaryExists,
                           IF e.finOk THEN "none" ELSE "KubeError", "finalizer"),
           finalizer |-> e.finOk ]
    ELSE LET out == apply_release(spec, status, cluster.canaryExists, t, samples, e)
         IN  [ out |-> [out EXCEPT !.err = IF out.err = "none" THEN "none" ELSE "KubeError"],
               finalizer |-> TRUE ]

NoLast == Last("none", <<>>, {}, DefaultStatus, FALSE, DefaultStatus)

ReleaseIdle ==
    /\ relSpec = [ strategyCanary |-> TRUE, hasAnalysis |-> TRUE, autoPromote |-> TRUE,
                   threshold |-> 1, maxFailures |-> 1, nMetrics |-> 1,
                   predictive |-> FALSE, interval |-> <<" ", "2", "s">>,
                   skipSigCheck |-> TRUE, sigConfigured |-> FALSE ]
    /\ relStatus = DefaultStatus
    /\ relCluster = [finalizer |-> FALSE, canaryExists |-> FALSE]
    /\ relErr = "none"
    /\ relMetrics = [latencyObs |-> 0, succeeded |-> 0, failed |-> 0]
    /\ relLast = NoLast

\* a phRelease the user has just created: no status, no finalizer, no workload
ReleaseInit ==
    /\ relSpec \in ReleaseSpecs
    /\ relStatus = DefaultStatus
    /\ relCluster = [finalizer |-> FALSE, canaryExists |-> FALSE]
    /\ relErr = "none"
    /\ relMetrics = [latencyObs |-> 0, succeeded |-> 0, failed |-> 0]
    /\ relLast = NoLast

Install(r) ==
    /\ relMetrics.latencyObs + r.out.obs <= MaxLatencyObs
    /\ relStatus' = r.out.status
    /\ relCluster' = [finalizer |-> r.finalizer, canaryExists |-> r.out.canaryExists]
    /\ relErr' = r.out.err
    /\ relMetrics' = [ latencyObs |-> relMetrics.latencyObs + r.out.obs,
                       succeeded |-> relMetrics.succeeded + r.out.succeeded,
                       failed |-> relMetrics.failed + r.out.failed ]
    /\ relLast' = r.out.last

\* one run of reconcile for the phRelease (watch event or requeue)
ReleaseReconcile ==
    /\ relErr = "none"
    /\ \E e \in ReleaseEnvs(relSpec, relStatus, relCluster) :
          Install(release_reconcile(relSpec, relStatus, relCluster, now, e.samples, e))
    /\ UNCHANGED <<now, relSpec, ahVars, restVars>>

\* the Controller calls on_error with the Err a reconcile returned
ReleaseOnError ==
    /\ relErr # "none"
    /\ \E updOk \in BOOLEAN :
          Install([ out |-> on_error(relStatus, relCluster.canaryExists, [updOk |-> updOk]),
                    finalizer |-> relCluster.finalizer ])
    /\ UNCHANGED <<now, relSpec, ahVars, restVars>>

\* time passes
Tick ==
    /\ now < MaxTime
    /\ now' = now + 1
    /\ UNCHANGED <<relVars, ahVars, restVars>>

\* the answers of an environment in which no API call fails and every metric
\* is classified Success
GoodEnvs(spec, status, cluster) ==
    {e \in ReleaseEnvs(spec, status, cluster) :
        /\ e.finOk /\ e.sigOk /\ ~e.getErr /\ e.apiFailAt = 0 /\ e.updOk
        /\ \A i \in DOMAIN e.samples : analyze(e.samples[i], spec.predictive) = "Success"}

\* one run of reconcile in that environment
ReleaseReconcileOk ==
    /\ relErr = "none"
    /\ \E e \in GoodEnvs(relSpec, relStatus, relCluster) :
          Install(release_reconcile(relSpec, relStatus, relCluster, now, e.samples, e))
    /\ UNCHANGED <<now, relSpec, ahVars, restVars>>

\* Action::requeue(interval): time passes until the next analysis is due (the
\* handlers read the clock only to compare it with lastCheck + interval)
AwaitInterval ==
    /\ relStatus.phase = "Progressing"
    /\ relStatus.lastCheck # NoTime
    /\ now < relStatus.lastCheck + parse_duration_str(relSpec.interval).secs
    /\ now' = now + 1
    /\ UNCHANGED <<relVars, ahVars, restVars>>

(***************************************************************************)
(* AutoHeal controller.                                                    *)
(***************************************************************************)
RuleIds == {"r1", "r2"}
RuleNamespace(r) == IF r = "r1" THEN "ns1" ELSE "ns2"
Triggers == {"A", "B"}
NoLabel == "-"        \* an alert without the alertname label
NoRule == [id |-> "-"]

\* the values of spec.cooldown and spec.actions a rule is created with
RuleCooldowns(r) == IF r = "r1" THEN { <<"2", "s">>, <<"2">> } ELSE { <<"2", "s">> }
RuleActionLists(r) ==
    IF r = "r1" THEN { <<"runbook">>, <<"scaleUp", "runbook">>, <<"snapshot", "notify">> }
    ELSE { <<"runbook">> }

\* a rule the user has not created yet, and a rule the apiserver has removed
AbsentRule ==
    [ state |-> "absent", finalizer |-> FALSE, dirty |-> FALSE, trigger |-> "A",
      cooldown |-> <<"2", "s">>, actions |-> <<"runbook">>,
      lastExec |-> NoTime, execCount |-> 0 ]
GoneRule == [AbsentRule EXCEPT !.state = "gone"]

OnApiserver(r) == rules[r].state \in {"live", "deleting"}

\* the copy of the object the reconciler stores in the cache (rule.as_ref().clone())
Snapshot(r) ==
    [ id |-> r, trigger |-> rules[r].trigger, cooldown |-> rules[r].cooldown,
      actions |-> rules[r].actions, lastExec |-> rules[r].lastExec,
      execCount |-> rules[r].execCount ]

AutoHealIdle ==
    /\ rules = [r \in RuleIds |-> AbsentRule]
    /\ cache = [t \in Triggers |-> NoRule]
    /\ tasks = <<>>
    /\ ahLog = [ spawned |-> 0, jobs |-> [r \in RuleIds |-> 0],
                 execs |-> [r \in RuleIds |-> 0], finished |-> {} ]

AutoHealInit == AutoHealIdle

\* triggerName is unique within a namespace
TriggerFree(r, t) ==
    \A o \in RuleIds \ {r} :
        (OnApiserver(o) /\ RuleNamespace(o) = RuleNamespace(r)) => rules[o].trigger # t

\* the user creates a rule
CreateRule(r) ==
    /\ rules[r].state = "absent"
    /\ \E t \in Triggers, cd \in RuleCooldowns(r), acts \in RuleActionLists(r) :
          /\ TriggerFree(r, t)
          /\ rules' = [rules EXCEPT ![r] = [AbsentRule EXCEPT !.state = "live",
                                               !.dirty = TRUE, !.trigger = t,
                                               !.cooldown = cd, !.actions = acts]]
    /\ UNCHANGED <<now, relVars, cache, tasks, ahLog, restVars>>

\* the user edits spec.triggerName
EditRule(r) ==
    /\ rules[r].state = "live"
    /\ \E t \in Triggers \ {rules[r].trigger} :
          /\ TriggerFree(r, t)
          /\ rules' = [rules EXCEPT ![r].trigger = t, ![r].dirty = TRUE]
    /\ UNCHANGED <<now, relVars, cache, tasks, ahLog, restVars>>

\* the user deletes a rule: with a finalizer the apiserver only sets deletionTimestamp
DeleteRule(r) ==
    /\ rules[r].state = "live"
    /\ rules' = [rules EXCEPT ![r] = IF rules[r].finalizer
                                     THEN [@ EXCEPT !.state = "deleting", !.dirty = TRUE]
                                     ELSE GoneRule]
    /\ UNCHANGED <<now, relVars, cache, tasks, ahLog, restVars>>

\* FinalizerEvent::Apply: cache.insert(trigger_name, rule)
CacheApply(c, r) == [c EXCEPT ![rules[r].trigger] = Snapshot(r)]

\* FinalizerEvent::Cleanup: cache.remove(&trigger_name)
CacheCleanup(c, r) == [c EXCEPT ![rules[r].trigger] = NoRule]

\* reconcile of a phAutoHealRule: the kube-rs finalizer helper.  A live object
\* without the finalizer gets it added; with it, Apply runs; an object being
\* deleted gets Cleanup and then the finalizer removed, which lets it go.
AutoHealReconcile(r) ==
    /\ OnApiserver(r)
    /\ \E patchOk \in BOOLEAN :
          IF rules[r].state = "live"
          THEN IF ~rules[r].finalizer
               THEN /\ rules' = [rules EXCEPT ![r].finalizer = patchOk]
                    /\ cache' = cache
               ELSE /\ patchOk
                    /\ cache' = CacheApply(cache, r)
                    /\ rules' = [rules EXCEPT ![r].dirty = FALSE]
          ELSE /\ cache' = CacheCleanup(cache, r)
               /\ rules' = IF patchOk THEN [rules EXCEPT ![r] = GoneRule] ELSE rules
    /\ UNCHANGED <<now, relVars, tasks, ahLog, restVars>>

\* history: at this instant (the webhook receives an alert named a that the
\* cache maps to rule r, or the task of that alert starts), the rule on the
\* apiserver carries trigger a and a lastExecutionTime, and
\* lastExecutionTime + cooldown lies in the future.  A task is marked
\* inCooldown when this holds at both instants.
InCooldownAtReceipt(r, a) ==
    /\ OnApiserver(r)
    /\ rules[r].trigger = a
    /\ rules[r].lastExec # NoTime
    /\ parse_duration(rules[r].cooldown).ok
    /\ rules[r].lastExec + parse_duration(rules[r].cooldown).secs > now

\* tokio::spawn(process_rule(rule_clone, alert_clone, client_clone))
NewTask(entry, a) ==
    [ rule |-> entry, pc |-> "start", idx |-> 0, attempted |-> <<>>, failed |-> {},
      inCooldown |-> InCooldownAtReceipt(entry.id, a) ]

\* handle_webhook: the loop over payload.alerts
RECURSIVE handle_webhook(_, _)
handle_webhook(alerts, ts) ==
    IF alerts = <<>> THEN ts
    ELSE LET a == Head(alerts)
         IN  handle_webhook(Tail(alerts),
                 IF a # NoLabel /\ cache[a] # NoRule
                 THEN Append(ts, NewTask(cache[a], a)) ELSE ts)

Payloads == UNION {[1..n -> Triggers \cup {NoLabel}] : n \in 1..MaxAlerts}

\* POST /webhook
Webhook ==
    /\ \E payload \in Payloads :
          LET ts == handle_webhook(payload, tasks)
              spawned == ahLog.spawned + Len(ts) - Len(tasks)
          IN  /\ spawned <= MaxTasks
              /\ tasks' = ts
              /\ ahLog' = [ahLog EXCEPT !.spawned = spawned]
    /\ UNCHANGED <<now, relVars, rules, cache, restVars>>

\* The body of a request as serde reads it.  An alert of the body has a
\* `labels` map or none ("missing"), with an alertname or without (NoLabel),
\* and an `annotations` map or none.
NoRequest == [code |-> 0, body |-> <<>>, spawned |-> <<>>]

WebhookAlerts == [labels : Triggers \cup {NoLabel, "missing"}, annotations : BOOLEAN]

WebhookBodies == UNION {[1..n -> WebhookAlerts] : n \in 0..MaxAlerts}

\* warp::body::json::<AlertmanagerPayload>(): `labels` and `annotations` of
\* Alert are required fields, so one alert without either rejects the body
body_json(body) ==
    IF \A i \in DOMAIN body : body[i].labels # "missing" /\ body[i].annotations
    THEN [ok |-> TRUE, alerts |-> [i \in DOMAIN body |-> body[i].labels]]
    ELSE [ok |-> FALSE, alerts |-> <<>>]

\* the route POST /webhook: a rejected body is answered 400 by warp and
\* handle_webhook does not run; handle_webhook answers 202
WebhookPost ==
    /\ \E body \in WebhookBodies :
          LET payload == body_json(body)
              ts == IF payload.ok THEN handle_webhook(payload.alerts, tasks) ELSE tasks
              spawned == ahLog.spawned + Len(ts) - Len(tasks)
          IN  /\ spawned <= MaxTasks
              /\ tasks' = ts
              /\ ahLog' = [ahLog EXCEPT !.spawned = spawned]
              /\ whResp' = [ code |-> IF payload.ok THEN 202 ELSE 400, body |-> body,
                             spawned |-> SubSeq(ts, Len(tasks) + 1, Len(ts)) ]
    /\ UNCHANGED <<now, relVars, rules, cache, drVars, pvVars, mcVars,
                   mhIn, mhRun, anIn, anOut, exIn, exOut, auxVars>>

\* a task ends: what it did is kept as history
Summary(task, end) ==
    [ id |-> task.rule.id, n |-> Len(task.rule.actions), end |-> end,
      attempted |-> task.attempted, failed |-> task.failed,
      inCooldown |-> task.inCooldown ]

Remove(s, i) == SubSeq(s, 1, i - 1) \o SubSeq(s, i + 1, Len(s))

\* process_rule, "1. Cooldown Check": "run", "skip" (in cooldown) or "err"
CooldownCheck(rule, t) ==
    IF rule.lastExec = NoTime THEN "run"
    ELSE LET cooldown_duration == parse_duration(rule.cooldown)
         IN  IF ~cooldown_duration.ok THEN "err"
             ELSE IF rule.lastExec + cooldown_duration.secs > t THEN "skip"
             ELSE "run"

\* a spawned task starts: process_rule up to its first suspension point
TaskStart(i) ==
    /\ tasks[i].pc = "start"
    /\ LET c == CooldownCheck(tasks[i].rule, now)
       IN  IF c = "run"
           THEN /\ tasks' = [tasks EXCEPT ![i].pc = "action", ![i].idx = 1,
                                           ![i].inCooldown =
                                               @ /\ InCooldownAtReceipt(tasks[i].rule.id,
                                                                        tasks[i].rule.trigger)]
                /\ ahLog' = ahLog
           ELSE /\ tasks' = Remove(tasks, i)
                /\ ahLog' = [ahLog EXCEPT !.finished = @ \cup {Summary(tasks[i], c)}]
    /\ UNCHANGED <<now, relVars, rules, cache, restVars>>

\* AfterAction returning from process_rule when an action fails
AfterAction_StopOnFailure(idx, n, ok) ==
    IF ~ok THEN [pc |-> "abort", idx |-> idx]
    ELSE IF idx < n THEN [pc |-> "action", idx |-> idx + 1]
    ELSE [pc |-> "status", idx |-> idx]

\* process_rule, the for loop: where the task goes after action idx of n returned
AfterAction(idx, n, ok) ==
    IF idx < n THEN [pc |-> "action", idx |-> idx + 1]
    ELSE [pc |-> "status", idx |-> idx]

\* the actions that report a failure to process_rule
CanFail(kind) == kind \in {"redeploy", "scaleUp", "runbook", "notify"}

\* process_rule executes the next action of spec.actions
TaskAction(i) ==
    /\ tasks[i].pc = "action"
    /\ LET t == tasks[i]
           kind == t.rule.actions[t.idx]
       IN  \E ok \in BOOLEAN :
              /\ (~ok) => CanFail(kind)
              /\ LET nxt == AfterAction(t.idx, Len(t.rule.actions), ok)
                     t2 == [t EXCEPT !.pc = nxt.pc, !.idx = nxt.idx,
                                     !.attempted = Append(t.attempted, t.idx),
                                     !.failed = IF ok THEN t.failed ELSE t.failed \cup {t.idx}]
                     jobs == IF kind = "runbook" /\ ok
                             THEN [ahLog.jobs EXCEPT ![t.rule.id] = @ + 1] ELSE ahLog.jobs
                 IN  IF nxt.pc \in {"action", "status"}
                     THEN /\ tasks' = [tasks EXCEPT ![i] = t2]
                          /\ ahLog' = [ahLog EXCEPT !.jobs = jobs]
                     ELSE /\ tasks' = Remove(tasks, i)
                          /\ ahLog' = [ahLog EXCEPT !.jobs = jobs,
                                          !.finished = @ \cup {Summary(t2, "aborted")}]
    /\ UNCHANGED <<now, relVars, rules, cache, restVars>>

\* update_status: executions_count is computed from the task's copy of the rule
NewExecutionsCount(rule) == rule.execCount + 1

\* process_rule, "3. Update Status after all actions are attempted"
TaskStatus(i) ==
    /\ tasks[i].pc = "status"
    /\ LET r == tasks[i].rule.id
       IN  \E patchOk \in BOOLEAN :
              IF patchOk /\ OnApiserver(r)
              THEN /\ rules' = [rules EXCEPT ![r].lastExec = now,
                                             ![r].execCount = NewExecutionsCount(tasks[i].rule),
                                             ![r].dirty = TRUE]
                   /\ ahLog' = [ahLog EXCEPT !.execs[r] = @ + 1,
                                   !.finished = @ \cup {Summary(tasks[i], "patched")}]
              ELSE /\ ahLog' = [ahLog EXCEPT
                                   !.finished = @ \cup {Summary(tasks[i], "patch_failed")}]
                   /\ rules' = rules
    /\ tasks' = Remove(tasks, i)
    /\ UNCHANGED <<now, relVars, cache, restVars>>

(***************************************************************************)
(* Disaster-recovery controller (dr_controller.rs).                        *)
(* An expression is a sequence of tokens; a health check meets either a    *)
(* failing query or a metric value.                                        *)
(***************************************************************************)
MaxDRThreshold == 2   \* healthCheck.failureThreshold in 0..MaxDRThreshold
MaxChecks == 4        \* health checks made over a run

DRStates == {"Monitoring", "Degraded", "FailingOver", "ActiveOnDR", "Failed"}
NoState == "None"     \* status.state absent

\* PhgitDisasterRecoveryStatus::default(); checked: lastHealthCheckTime is set
DRDefaultStatus ==
    [ state |-> NoState, activeCluster |-> "None", consecutiveFailures |-> 0,
      checked |-> FALSE ]

\* healthCheck.successCondition: absent, or an expression
NoCondition == <<>>
DefaultCondition == <<"value", ">", "0">>
SuccessConditions == { NoCondition, <<"value", "<", "1">>, <<"value">> }
MetricValues == {"0", "1"}      \* metric_value.to_string()

\* the annotation ph.io/failover: absent, or its value
NoAnnotation == "-"
AnnotationValues == {"true", "yes"}

DRSpecs ==
    [ failureThreshold : 0..MaxDRThreshold,
      trigger : {"Automatic", "Manual"},
      interval : IntervalStrings,
      condition : SuccessConditions ]

\* str::replace on the tokens of an expression
Replace(expr, from, to) ==
    [i \in 1..Len(expr) |-> IF expr[i] = from THEN to ELSE expr[i]]

\* str::find: position of the first occurrence, 0 when there is none
Find(expr, tok) ==
    IF \E i \in 1..Len(expr) : expr[i] = tok
    THEN CHOOSE i \in 1..Len(expr) : expr[i] = tok /\ \A j \in 1..(i - 1) : expr[j] # tok
    ELSE 0

\* str::parse::<f64> of an operand
ParseF64(operand) ==
    IF Len(operand) = 1 /\ operand[1] \in Digits
    THEN [ok |-> TRUE, val |-> DigitVal(operand[1])]
    ELSE [ok |-> FALSE, val |-> 0]

Operators == <<"<=", ">=", "==", "!=", "<", ">">>

Compare(op, left, right) ==
    CASE op = "<" -> left < right
      [] op = "<=" -> left <= right
      [] op = ">" -> left > right
      [] op = ">=" -> left >= right
      [] op = "==" -> left = right
      [] op = "!=" -> left # right

\* dr_controller.rs evaluate_simple_expression: "true", "false" or "error"
RECURSIVE evaluate_simple_expression(_)
evaluate_simple_expression(expression) ==
    LET and == Find(expression, "&&")
        or == Find(expression, "||")
        both(pos) == << evaluate_simple_expression(SubSeq(expression, 1, pos - 1)),
                        evaluate_simple_expression(SubSeq(expression, pos + 1,
                                                          Len(expression))) >>
        found == {k \in 1..Len(Operators) : Find(expression, Operators[k]) # 0}
    IN  IF and # 0
        THEN LET r == both(and)
             IN  IF "error" \in {r[1], r[2]} THEN "error"
                 ELSE IF r[1] = "true" /\ r[2] = "true" THEN "true" ELSE "false"
        ELSE IF or # 0
        THEN LET r == both(or)
             IN  IF "error" \in {r[1], r[2]} THEN "error"
                 ELSE IF r[1] = "true" \/ r[2] = "true" THEN "true" ELSE "false"
        ELSE IF found = {} THEN "error"
        ELSE LET k == CHOOSE x \in found : \A y \in found : x <= y
                 pos == Find(expression, Operators[k])
                 left == ParseF64(SubSeq(expression, 1, pos - 1))
                 right == ParseF64(SubSeq(expression, pos + 1, Len(expression)))
             IN  IF ~left.ok \/ ~right.ok THEN "error"
                 ELSE IF Compare(Operators[k], left.val, right.val) THEN "true"
                 ELSE "false"

\* what one health check can meet
DRChecks ==
    {[query |-> q, value |-> "0"] : q \in QueryErrors}
    \cup {[query |-> "ok", value |-> v] : v \in MetricValues}

\* reconcile, Monitoring: check_is_successful
HealthCheck(spec, chk) ==
    IF chk.query \in QueryErrors THEN FALSE
    ELSE LET success_condition ==
                 IF spec.condition = NoCondition THEN DefaultCondition ELSE spec.condition
             expression == Replace(success_condition, "value", chk.value)
         IN  evaluate_simple_expression(expression) = "true"

\* UpdateFailures reaching Degraded one failure late
UpdateFailures_LateDegrade(status, check_is_successful, failure_threshold) ==
    IF check_is_successful
    THEN [status EXCEPT !.consecutiveFailures = 0, !.state = "Monitoring", !.checked = TRUE]
    ELSE LET cf == status.consecutiveFailures + 1
         IN  [status EXCEPT !.consecutiveFailures = cf,
                            !.state = IF cf > failure_threshold THEN "Degraded" ELSE @]

\* UpdateFailures keeping the count on a successful check
UpdateFailures_NoReset(status, check_is_successful, failure_threshold) ==
    IF check_is_successful
    THEN [status EXCEPT !.state = "Monitoring", !.checked = TRUE]
    ELSE LET cf == status.consecutiveFailures + 1
         IN  [status EXCEPT !.consecutiveFailures = cf,
                            !.state = IF cf >= failure_threshold THEN "Degraded" ELSE @]

\* reconcile, Monitoring: the new status after a health check
UpdateFailures(status, check_is_successful, failure_threshold) ==
    IF check_is_successful
    THEN [status EXCEPT !.consecutiveFailures = 0, !.state = "Monitoring", !.checked = TRUE]
    ELSE LET cf == status.consecutiveFailures + 1
         IN  [status EXCEPT !.consecutiveFailures = cf,
                            !.state = IF cf >= failure_threshold THEN "Degraded" ELSE @]

\* history of a DR handler run: the handler, the state and count it read, the
\* trigger and annotation it saw, the health check it made ("none", "ok",
\* "fail"), the cluster writes it made, whether patch_status succeeded, and
\* the state on the apiserver after it
DRRun(kind, spec, meta, status, check, writes, wrote, new_status) ==
    [ kind |-> kind, from |-> status.state, cf0 |-> status.consecutiveFailures,
      trigger |-> spec.trigger, annotation |-> meta.annotation,
      check |-> check, writes |-> writes, wrote |-> wrote,
      to |-> IF wrote THEN new_status.state ELSE status.state ]

DROutcome(status, cluster, err, last) ==
    [ status |-> status, cluster |-> cluster, err |-> err, last |-> last ]

\* update_status as the last fallible call of a DR handler
dr_update_status(kind, spec, meta, status, new_status, cluster, check, writes, e) ==
    IF e.updOk
    THEN DROutcome(new_status, cluster, "none",
                   DRRun(kind, spec, meta, status, check, writes, TRUE, new_status))
    ELSE DROutcome(status, cluster, "KubeError",
                   DRRun(kind, spec, meta, status, check, writes, FALSE, new_status))

\* reconcile, DRState::Monitoring
dr_monitoring(spec, meta, status, cluster, e) ==
    IF ~parse_duration_str(spec.interval).ok
    THEN DROutcome(status, cluster, "InvalidInterval",
                   DRRun("monitoring", spec, meta, status, "none", 0, FALSE, status))
    ELSE LET check_is_successful == HealthCheck(spec, e.check)
             new_status == UpdateFailures(status, check_is_successful,
                                          spec.failureThreshold)
         IN  dr_update_status("monitoring", spec, meta, status, new_status, cluster,
                              IF check_is_successful THEN "ok" ELSE "fail", 0, e)

\* should_failover that waits for the annotation under every trigger
should_failover_ManualOnly(spec, meta) ==
    meta.annotation = "true"

\* should_failover accepting any value of the annotation
should_failover_AnyAnnotation(spec, meta) ==
    spec.trigger = "Automatic" \/ meta.annotation # NoAnnotation

\* reconcile, DRState::Degraded: should_failover
should_failover(spec, meta) ==
    spec.trigger = "Automatic" \/ meta.annotation = "true"

\* reconcile, DRState::Degraded
dr_degraded(spec, meta, status, cluster, e) ==
    IF should_failover(spec, meta)
    THEN dr_update_status("degraded", spec, meta, status,
                          [status EXCEPT !.state = "FailingOver"], cluster, "none", 0, e)
    ELSE DROutcome(status, cluster, "none",
                   DRRun("degraded", spec, meta, status, "none", 0, FALSE, status))

\* reconcile, DRState::FailingOver.  The calls, in order: 1, 2 get_remote_client
\* (primary, DR); 3 scale the primary Deployment to 0; 4 replicate_resources;
\* 5 get the primary Deployment; 6 apply it to the DR cluster; 7 scale it up;
\* then update_status.  e.failAt is the call that fails (0: none).
FailoverCalls == 7

dr_failing_over(spec, meta, status, cluster, e) ==
    LET done(k) == e.failAt = 0 \/ e.failAt > k
        new_cluster == [ primaryScaledDown |-> cluster.primaryScaledDown \/ done(3),
                         replicated |-> cluster.replicated \/ done(4),
                         drApplied |-> cluster.drApplied \/ done(6),
                         drScaledUp |-> cluster.drScaledUp \/ done(7) ]
        writes == Cardinality({k \in {3, 4, 6, 7} : done(k)})
        new_status == [status EXCEPT !.state = "ActiveOnDR", !.activeCluster = "DR"]
    IN  IF e.failAt # 0
        THEN DROutcome(status, new_cluster,
                       IF e.failAt <= 2 THEN "KubeconfigError" ELSE "KubeError",
                       DRRun("failing_over", spec, meta, status, "none", writes, FALSE,
                             status))
        ELSE dr_update_status("failing_over", spec, meta, status, new_status,
                              new_cluster, "none", writes, e)

\* dr_terminal going back to Monitoring
dr_terminal_Restart(spec, meta, status, cluster) ==
    LET new_status == [status EXCEPT !.state = "Monitoring"]
    IN  DROutcome(new_status, cluster, "none",
                  DRRun("terminal", spec, meta, status, "none", 0, TRUE, new_status))

\* reconcile, DRState::ActiveOnDR | DRState::Failed
dr_terminal(spec, meta, status, cluster) ==
    DROutcome(status, cluster, "none",
              DRRun("terminal", spec, meta, status, "none", 0, FALSE, status))

\* dr_controller.rs reconcile
dr_reconcile(spec, meta, status, cluster, e) ==
    LET state == IF status.state = NoState THEN "Monitoring" ELSE status.state
    IN  CASE state = "Monitoring" -> dr_monitoring(spec, meta, status, cluster, e)
          [] state = "Degraded" -> dr_degraded(spec, meta, status, cluster, e)
          [] state = "FailingOver" -> dr_failing_over(spec, meta, status, cluster, e)
          [] state \in {"ActiveOnDR", "Failed"} -> dr_terminal(spec, meta, status, cluster)

\* dr_controller.rs on_error: the failure of its own update_status is only logged
dr_on_error(spec, meta, status, cluster, e) ==
    LET out == dr_update_status("on_error", spec, meta, status,
                                [status EXCEPT !.state = "Failed"], cluster, "none", 0, e)
    IN  [out EXCEPT !.err = "none"]

\* what the environment answers during one DR reconcile, by the state it runs in
DREnvs(status) ==
    LET E(chk, fail, upd) == [check |-> chk, failAt |-> fail, updOk |-> upd]
        idle == [query |-> "ok", value |-> "1"]
    IN  CASE status.state \in {NoState, "Monitoring"} ->
                {E(c, 0, u) : c \in DRChecks, u \in BOOLEAN}
          [] status.state = "Degraded" -> {E(idle, 0, u) : u \in BOOLEAN}
          [] status.state = "FailingOver" ->
                {E(idle, f, TRUE) : f \in 1..FailoverCalls}
                \cup {E(idle, 0, u) : u \in BOOLEAN}
          [] OTHER -> {E(idle, 0, TRUE)}

DRNoRun == DRRun("none", [trigger |-> "Manual"], [annotation |-> NoAnnotation],
                 DRDefaultStatus, "none", 0, FALSE, DRDefaultStatus)

DRNoHist ==
    [ checks |-> 0, recordedRun |-> 0, everDegraded |-> FALSE,
      everAtThreshold |-> FALSE, everFailedAtThreshold |-> FALSE,
      failoverFrom |-> "None" ]

DRIdle ==
    /\ drSpec = [ failureThreshold |-> 1, trigger |-> "Manual",
                  interval |-> <<" ", "2", "s">>, condition |-> NoCondition ]
    /\ drMeta = [annotation |-> NoAnnotation]
    /\ drStatus = DRDefaultStatus
    /\ drCluster = [ primaryScaledDown |-> FALSE, replicated |-> FALSE,
                     drApplied |-> FALSE, drScaledUp |-> FALSE ]
    /\ drErr = "none"
    /\ drLast = DRNoRun
    /\ drHist = DRNoHist

\* a PhgitDisasterRecovery the user has just created
DRInit ==
    /\ drSpec \in DRSpecs
    /\ drMeta = [annotation |-> NoAnnotation]
    /\ drStatus = DRDefaultStatus
    /\ drCluster = [ primaryScaledDown |-> FALSE, replicated |-> FALSE,
                     drApplied |-> FALSE, drScaledUp |-> FALSE ]
    /\ drErr = "none"
    /\ drLast = [DRNoRun EXCEPT !.trigger = drSpec.trigger]
    /\ drHist = DRNoHist

\* history kept over the handler runs
DRHistory(h, out) ==
    LET l == out.last
        cf == out.status.consecutiveFailures
        at == l.check # "none" /\ l.wrote /\ cf >= drSpec.failureThreshold
    IN  [ checks |-> h.checks + (IF l.check = "none" THEN 0 ELSE 1),
          recordedRun |-> CASE l.check = "ok" /\ l.wrote -> 0
                            [] l.check = "fail" /\ l.wrote -> h.recordedRun + 1
                            [] OTHER -> h.recordedRun,
          everDegraded |-> h.everDegraded \/ out.status.state = "Degraded",
          everAtThreshold |-> h.everAtThreshold \/ at,
          everFailedAtThreshold |-> h.everFailedAtThreshold \/ (at /\ l.check = "fail"),
          failoverFrom |-> IF l.to = "FailingOver" /\ l.from # "FailingOver"
                           THEN l.from ELSE h.failoverFrom ]

DRInstall(out) ==
    /\ drStatus' = out.status
    /\ drCluster' = out.cluster
    /\ drErr' = out.err
    /\ drLast' = out.last
    /\ drHist' = DRHistory(drHist, out)
    /\ drHist'.checks <= MaxChecks

\* one run of reconcile for the PhgitDisasterRecovery (watch event or requeue)
DRReconcile ==
    /\ drErr = "none"
    /\ \E e \in DREnvs(drStatus) :
          DRInstall(dr_reconcile(drSpec, drMeta, drStatus, drCluster, e))
    /\ UNCHANGED <<now, relVars, ahVars, fnVars, pvVars, mcVars, drSpec, drMeta>>

\* the Controller calls on_error with the Err a reconcile returned
DROnError ==
    /\ drErr # "none"
    /\ \E updOk \in BOOLEAN :
          DRInstall(dr_on_error(drSpec, drMeta, drStatus, drCluster, [updOk |-> updOk]))
    /\ UNCHANGED <<now, relVars, ahVars, fnVars, pvVars, mcVars, drSpec, drMeta>>

\* the operator sets the annotation ph.io/failover
DRAnnotate ==
    /\ drMeta.annotation = NoAnnotation
    /\ \E v \in AnnotationValues : drMeta' = [annotation |-> v]
    /\ UNCHANGED <<now, relVars, ahVars, fnVars, pvVars, mcVars, drSpec, drStatus, drCluster, drErr, drLast, drHist>>

\* the answers of an environment in which every health check fails (the query
\* fails or the success condition does not hold) and no API call fails
DRFailingEnvs(spec, status) ==
    {e \in DREnvs(status) :
        /\ e.failAt = 0 /\ e.updOk
        /\ status.state \in {NoState, "Monitoring"} => ~HealthCheck(spec, e.check)}

\* one run of reconcile in that environment
DRReconcileFailing ==
    /\ drErr = "none"
    /\ \E e \in DRFailingEnvs(drSpec, drStatus) :
          DRInstall(dr_reconcile(drSpec, drMeta, drStatus, drCluster, e))
    /\ UNCHANGED <<now, relVars, ahVars, fnVars, pvVars, mcVars, drSpec, drMeta>>

(***************************************************************************)
(* Preview controller (preview_controller.rs).                             *)
(* Names are sequences of characters.  A slot holds one phPreview from its *)
(* creation until the apiserver drops it; the uid is the one the apiserver *)
(* gave it, distinct from the uid of every other object.                   *)
(***************************************************************************)
MaxPreviews == 2
MaxEdits    == 1
MaxCounted  == 1       \* phgit_preview_created_total and the size of phgit_preview_active

PreviewIds == 1..MaxPreviews

\* &uid[..6]
UidPrefixLen == 6

\* the uid the apiserver gives to the object of each slot
Uids ==
    << <<"a", "b", "c", "d", "e", "f", "0">>,
       <<"a", "b", "c", "d", "e", "f", "1">> >>

\* spec.branch and spec.appName, as the user writes them
PreviewSpecs ==
    { [branch |-> <<"f", "/", "x">>, appName |-> <<"w">>],
      [branch |-> <<"m">>,           appName |-> <<"w">>],
      [branch |-> <<"f", "/", "x">>, appName |-> <<"v">>] }

\* a slot: never used (uid = <<>>), live (exists), or dropped by the apiserver;
\* slots are taken in order, and MaxEdits of the objects are edited, once.
\* made and edits are history: the names apply_preview created or met, and
\* the spec edits made so far.
NoPreview ==
    [ exists |-> FALSE, uid |-> <<>>, branch |-> <<>>, appName |-> <<>>,
      finalizer |-> FALSE, deleting |-> FALSE,
      statusNs |-> <<>>, phase |-> "None", made |-> {}, edits |-> 0 ]

\* the slot of an object the apiserver dropped: only its uid stays taken
PreviewGone(preview) == [NoPreview EXCEPT !.uid = preview.uid]

generate_namespace_name(preview) ==
    <<"p", "r", "e", "v", "i", "e", "w", "-">>
        \o Replace(preview.branch, "/", "-")
        \o <<"-">> \o preview.appName
        \o <<"-">> \o SubSeq(preview.uid, 1, UidPrefixLen)

\* what the calls of one reconcile meet: the call that fails (0: none), the
\* pods' health, the answer to the namespace delete, and whether the
\* finalizer patch and the status patch of on_error are accepted.  Answers
\* to calls the reconcile of this object does not make are held at one value.
PreviewEnvs(preview) ==
    LET E(f, h, d, p, o) ==
            [failAt |-> f, healthy |-> h, delete |-> d, patchOk |-> p, onErrorOk |-> o]
    IN  CASE ~preview.deleting /\ ~preview.finalizer ->
               {E(0, TRUE, "ok", TRUE, TRUE)} \cup {E(0, TRUE, "ok", FALSE, o) : o \in BOOLEAN}
          [] ~preview.deleting /\ preview.finalizer ->
               {E(0, h, "ok", TRUE, TRUE) : h \in BOOLEAN}
               \cup {E(f, TRUE, "ok", TRUE, o) : f \in 1..4, o \in BOOLEAN}
               \cup {E(5, h, "ok", TRUE, o) : h \in BOOLEAN, o \in BOOLEAN}
          [] preview.deleting /\ preview.finalizer ->
               {E(1, TRUE, "ok", TRUE, o) : o \in BOOLEAN}
               \cup {E(0, TRUE, d, TRUE, TRUE) : d \in {"ok", "error"}}
               \cup {E(0, TRUE, d, FALSE, o) : d \in {"ok", "error"}, o \in BOOLEAN}
          [] OTHER -> {E(0, TRUE, "ok", TRUE, TRUE)}

\* on_error: status Failed, with the namespace of the status the reconciled
\* object carried; a failure of the patch is only logged
preview_on_error(preview, now_obj, e) ==
    IF e.onErrorOk
    THEN [now_obj EXCEPT !.statusNs = preview.statusNs, !.phase = "Failed"]
    ELSE now_obj

\* created, active: what the run adds to PHGIT_PREVIEW_CREATED_TOTAL and to
\* PHGIT_PREVIEW_ACTIVE
PreviewRun(kind, delete, removed, obj, namespaces) ==
    [ kind |-> kind, delete |-> delete, finalizerRemoved |-> removed,
      obj |-> obj, namespaces |-> namespaces, created |-> 0, active |-> 0 ]

\* apply_preview, Ok branch of the health check: created_total.inc(), active.inc()
Healthy(preview, run) ==
    [run EXCEPT !.created = 1, !.active = 1]

apply_preview(preview, namespaces, e) ==
    LET ns_name  == generate_namespace_name(preview)
        creating == [preview EXCEPT !.statusNs = ns_name, !.phase = "Creating"]
        created  == [creating EXCEPT !.made = @ \cup {ns_name}]
    IN  CASE e.failAt = 1 ->
               PreviewRun("apply", "none", FALSE, preview_on_error(preview, preview, e), namespaces)
          [] e.failAt = 2 ->
               PreviewRun("apply", "none", FALSE, preview_on_error(preview, creating, e), namespaces)
          [] e.failAt \in 3..4 ->
               PreviewRun("apply", "none", FALSE, preview_on_error(preview, created, e),
                          namespaces \cup {ns_name})
          [] OTHER ->
               LET run == IF e.failAt = 5
                          THEN PreviewRun("apply", "none", FALSE,
                                          preview_on_error(preview, created, e),
                                          namespaces \cup {ns_name})
                          ELSE PreviewRun("apply", "none", FALSE,
                                          [created EXCEPT !.phase = IF e.healthy THEN "Deployed"
                                                                    ELSE "Failed"],
                                          namespaces \cup {ns_name})
               IN  IF e.healthy THEN Healthy(preview, run) ELSE run

\* The answer of the apiserver to the delete follows the cluster: a delete
\* that does not fail meets the namespace ("ok") or its absence
\* ("notfound"); "error" is any other failure.
cleanup_preview(preview, namespaces, e) ==
    LET ns_name     == generate_namespace_name(preview)
        terminating == [preview EXCEPT !.statusNs = ns_name, !.phase = "Terminating"]
        answer      == IF e.delete = "error" THEN "error"
                       ELSE IF ns_name \in namespaces THEN "ok" ELSE "notfound"
        run         == IF e.failAt = 1
                       THEN PreviewRun("cleanup", "none", FALSE,
                                       preview_on_error(preview, preview, e), namespaces)
                       ELSE PreviewRun("cleanup", answer, FALSE, terminating,
                                       IF answer = "ok" THEN namespaces \ {ns_name}
                                       ELSE namespaces)
    IN  [run EXCEPT !.active = -1]      \* PHGIT_PREVIEW_ACTIVE.dec(), the first statement

\* kube::runtime::finalizer::finalizer as reconcile calls it: add the
\* finalizer to an object that has none, apply an object that has it, clean
\* up an object under deletion and then remove the finalizer, which lets
\* the apiserver drop the object.
preview_reconcile(preview, namespaces, e) ==
    CASE ~preview.deleting /\ ~preview.finalizer ->
           IF e.patchOk
           THEN PreviewRun("add", "none", FALSE, [preview EXCEPT !.finalizer = TRUE], namespaces)
           ELSE PreviewRun("add", "none", FALSE, preview_on_error(preview, preview, e), namespaces)
      [] ~preview.deleting /\ preview.finalizer ->
           apply_preview(preview, namespaces, e)
      [] preview.deleting /\ preview.finalizer ->
           LET run == cleanup_preview(preview, namespaces, e)
           IN  IF run.delete = "none" THEN run
               ELSE IF e.patchOk
               THEN [run EXCEPT !.finalizerRemoved = TRUE, !.obj = PreviewGone(preview)]
               ELSE [run EXCEPT !.obj = preview_on_error(preview, @, e)]
      [] OTHER -> PreviewRun("none", "none", FALSE, preview, namespaces)

\* deployed is history: the Previews that passed the health check of an apply
PreviewIdle ==
    /\ pvObj = [i \in PreviewIds |-> NoPreview]
    /\ pvNamespaces = {}
    /\ pvMetrics = [created |-> 0, active |-> 0, deployed |-> {}]

\* kubectl apply of a new phPreview
PreviewCreate ==
    /\ \E i \in PreviewIds \cap DOMAIN Uids, spec \in PreviewSpecs :
          /\ pvObj[i] = NoPreview
          /\ \A j \in 1..(i - 1) : pvObj[j] # NoPreview
          /\ pvObj' = [pvObj EXCEPT ![i] =
                [NoPreview EXCEPT !.exists = TRUE, !.uid = Uids[i],
                                  !.branch = spec.branch, !.appName = spec.appName]]
    /\ UNCHANGED <<now, relVars, ahVars, fnVars, drVars, mcVars, pvNamespaces, pvMetrics>>

\* an edit of spec.branch or spec.appName
PreviewEdit ==
    /\ \E i \in PreviewIds, spec \in PreviewSpecs :
          /\ pvObj[i].exists /\ ~pvObj[i].deleting
          /\ pvObj[i].edits = 0
          /\ Cardinality({j \in PreviewIds : pvObj[j].edits > 0}) < MaxEdits
          /\ <<spec.branch, spec.appName>> # <<pvObj[i].branch, pvObj[i].appName>>
          /\ pvObj' = [pvObj EXCEPT ![i].branch = spec.branch, ![i].appName = spec.appName,
                                    ![i].edits = @ + 1]
    /\ UNCHANGED <<now, relVars, ahVars, fnVars, drVars, mcVars, pvNamespaces, pvMetrics>>

\* kubectl delete: the apiserver keeps an object that carries a finalizer
PreviewDelete ==
    /\ \E i \in PreviewIds :
          /\ pvObj[i].exists /\ ~pvObj[i].deleting
          /\ pvObj' = [pvObj EXCEPT ![i] =
                IF @.finalizer THEN [@ EXCEPT !.deleting = TRUE] ELSE PreviewGone(@)]
    /\ UNCHANGED <<now, relVars, ahVars, fnVars, drVars, mcVars, pvNamespaces, pvMetrics>>

PreviewReconcile ==
    /\ \E i \in PreviewIds :
          /\ pvObj[i].exists
          /\ \E e \in PreviewEnvs(pvObj[i]) :
                 LET run == preview_reconcile(pvObj[i], pvNamespaces, e)
                 IN  /\ pvObj' = [pvObj EXCEPT ![i] = run.obj]
                     /\ pvNamespaces' = run.namespaces
                     /\ pvMetrics' =
                            [ created |-> pvMetrics.created + run.created,
                              active |-> pvMetrics.active + run.active,
                              deployed |-> IF run.created > 0
                                           THEN pvMetrics.deployed \cup {i}
                                           ELSE pvMetrics.deployed ]
                     /\ pvMetrics'.created <= MaxCounted
                     /\ pvMetrics'.active \in (0 - MaxCounted)..MaxCounted
    /\ UNCHANGED <<now, relVars, ahVars, fnVars, drVars, mcVars>>

(***************************************************************************)
(* Multi-cluster orchestrator (multi_cluster_orchestrator: strategies.rs,  *)
(* cluster_manager.rs).  A cluster name is the sequence of its bytes.  A    *)
(* resource of the application is a kind, a colour label and a namespace;  *)
(* the manifests name their objects after the colour, so that the blue and *)
(* the green objects are different objects.                                *)
(***************************************************************************)
\* target.stage.unwrap_or(u32::MAX): the greatest stage number there is,
\* here the greatest integer of the model checker
NoStage == 2147483647

\* the clusters of config/clusters.yaml, in file order
ClusterNames == << <<2>>, <<1>>, <<1, 0>> >>

\* Api::default_namespaced: the namespace of the kubeconfig context
DefaultNamespace == "default"

\* The calls of execute_action.  The targets are the clusters of the file
\* whose name is targeted (handle_apply_action), each with its stage; a
\* manifest bundle is its documents and the namespace they name.  The stage
\* of a cluster matters to Staged alone, the manifests to BlueGreen alone.
McInputs ==
    LET numbers == {1, 2, NoStage}
        none    == [i \in DOMAIN ClusterNames |-> NoStage]
        plain   == [docs |-> <<"Deployment">>, namespace |-> DefaultNamespace]
        bundles == { plain,
                     [docs |-> <<"Deployment", "ConfigMap">>, namespace |-> DefaultNamespace],
                     [docs |-> <<"Deployment">>, namespace |-> "apps"] }
        names   == SUBSET {ClusterNames[i] : i \in DOMAIN ClusterNames}
        Targets(n, stage) ==
            LET all == [i \in DOMAIN ClusterNames |->
                           [name |-> ClusterNames[i], stage |-> stage[i]]]
                Targeted(c) == c.name \in n
            IN  SelectSeq(all, Targeted)
    IN  { [targets |-> Targets(n, st), strategy |-> "Staged", manifests |-> plain] :
              n \in names, st \in [DOMAIN ClusterNames -> numbers] }
        \cup { [targets |-> Targets(n, none), strategy |-> s, manifests |-> plain] :
              n \in names, s \in {"Direct", "Parallel", "Failover"} }
        \cup { [targets |-> Targets(n, none), strategy |-> "BlueGreen", manifests |-> m] :
              n \in names, m \in bundles }

\* String::cmp: byte-wise lexicographic order
NameLess(a, b) ==
    \E k \in 1..(Len(a) + 1) :
        /\ k <= Len(b)
        /\ \A j \in 1..(k - 1) : a[j] = b[j]
        /\ k <= Len(a) => a[k] < b[k]

Names(targets) == [i \in DOMAIN targets |-> targets[i].name]

McStage(targets, action, color) ==
    [targets |-> Names(targets), action |-> action, color |-> color]

DirectStrategy(targets) ==
    IF targets = <<>> THEN <<>> ELSE << McStage(targets, "Apply", "none") >>

\* BTreeMap<u32, Vec<ClusterTarget>>::into_values: one Apply stage per stage
\* number, in ascending order of the numbers
StagedStrategy(targets) ==
    LET numbers == {targets[i].stage : i \in DOMAIN targets}
        order   == CHOOSE f \in [1..Cardinality(numbers) -> numbers] :
                       \A i, j \in DOMAIN f : i < j => f[i] < f[j]
        In(n)   == LET Member(c) == c.stage = n IN SelectSeq(targets, Member)
    IN  [i \in 1..Cardinality(numbers) |-> McStage(In(order[i]), "Apply", "none")]

FailoverStrategy_Unsorted(targets) ==
    [i \in DOMAIN targets |-> McStage(<<targets[i]>>, "Apply", "none")]

\* sort_by(|a, b| a.name.cmp(&b.name)), then one Apply stage per cluster
FailoverStrategy(targets) ==
    LET sorted_targets ==
            CHOOSE f \in [DOMAIN targets -> {targets[i] : i \in DOMAIN targets}] :
                /\ \A i \in DOMAIN targets : \E j \in DOMAIN f : f[j] = targets[i]
                /\ \A i, j \in DOMAIN f : i < j => ~NameLess(f[j].name, f[i].name)
    IN  [i \in DOMAIN targets |-> McStage(<<sorted_targets[i]>>, "Apply", "none")]

BlueGreenStrategy(targets) ==
    IF targets = <<>> THEN <<>>
    ELSE << McStage(targets, "Apply", "green"),
            McStage(targets, "HealthCheck", "green"),
            McStage(targets, "SwitchTraffic", "green"),
            McStage(targets, "DeleteResources", "blue") >>

\* get_strategy(..).plan_execution(..)
plan_execution(strategy_type, targets) ==
    CASE strategy_type = "Staged"    -> StagedStrategy(targets)
      [] strategy_type = "Failover"  -> FailoverStrategy(targets)
      [] strategy_type = "BlueGreen" -> BlueGreenStrategy(targets)
      [] OTHER                       -> DirectStrategy(targets)

\* the names of the clusters a stage runs on, in the order of the targets
clusters_in_stage(targets, stage) ==
    LET InStage(n) == \E i \in DOMAIN stage.targets : stage.targets[i] = n
    IN  SelectSeq(Names(targets), InStage)

Labelled(docs, color, namespace) ==
    {[kind |-> docs[i], color |-> color, namespace |-> namespace] : i \in DOMAIN docs}

\* what one per-cluster task of execute_stage meets: whether it succeeds
\* and, for a failing apply, how many documents were patched before
McEnvs(stage, manifests) ==
    { [ok |-> TRUE, applied |-> 0] }
        \cup { [ok |-> FALSE, applied |-> k] :
                 k \in IF stage.action = "Apply" THEN 0..(Len(manifests.docs) - 1) ELSE {0} }

\* the resources of a cluster after the task of a stage
execute_task(stage, manifests, resources, e) ==
    CASE stage.action = "Apply" ->
           resources \cup
               Labelled(IF e.ok THEN manifests.docs ELSE SubSeq(manifests.docs, 1, e.applied),
                        stage.color, manifests.namespace)
      [] stage.action = "DeleteResources" /\ e.ok ->
           resources \ Labelled(<<"Deployment">>, stage.color, DefaultNamespace)
      [] OTHER -> resources

halts_AfterSuccess(strategy_type, stage_results) ==
    (\E r \in stage_results : r.ok) /\ strategy_type \in {"Staged", "Failover"}

\* the two break statements of execute_action
halts(strategy_type, stage_results) ==
    \/ (\E r \in stage_results : ~r.ok) /\ strategy_type = "Staged"
    \/ (\E r \in stage_results : r.ok) /\ strategy_type = "Failover"

McNoRun ==
    [ phase |-> "idle", plan |-> <<>>, stage |-> 0, pending |-> {},
      stage_results |-> {}, all_results |-> <<>> ]

McIdle ==
    /\ mcIn = [targets |-> <<>>, strategy |-> "Direct",
               manifests |-> [docs |-> <<"Deployment">>, namespace |-> DefaultNamespace]]
    /\ mcRun = McNoRun
    /\ mcRes = [i \in DOMAIN ClusterNames |-> {}]

\* before a BlueGreen call the clusters hold nothing or the blue objects
\* of the former rollout of the same manifests
McInit ==
    /\ mcIn \in McInputs
    /\ mcRun = McNoRun
    /\ \E blue \in {{}} \cup (IF mcIn.strategy = "BlueGreen"
                             THEN {Labelled(mcIn.manifests.docs, "blue", mcIn.manifests.namespace)}
                             ELSE {}) :
          mcRes = [i \in DOMAIN ClusterNames |->
                      IF \E j \in DOMAIN mcIn.targets : mcIn.targets[j].name = ClusterNames[i]
                      THEN blue ELSE {}]

\* execute_stage up to join_all: one task per cluster of the stage
McSpawn(run, plan, i) ==
    [run EXCEPT !.phase = "running", !.plan = plan, !.stage = i,
                !.pending = {n \in {ClusterNames[k] : k \in DOMAIN ClusterNames} :
                                \E j \in DOMAIN mcIn.targets :
                                    /\ mcIn.targets[j].name = n
                                    /\ \E t \in DOMAIN plan[i].targets : plan[i].targets[t] = n},
                !.stage_results = {}]

\* the call of execute_action, up to the first join_all
McExecute ==
    /\ mcRun.phase = "idle"
    /\ LET execution_plan == plan_execution(mcIn.strategy, mcIn.targets)
       IN  mcRun' = IF execution_plan = <<>>
                    THEN [mcRun EXCEPT !.phase = "done"]
                    ELSE McSpawn(mcRun, execution_plan, 1)
    /\ UNCHANGED <<now, relVars, ahVars, fnVars, drVars, pvVars, mcIn, mcRes>>

\* one spawned task runs to its end
McTask ==
    /\ mcRun.phase = "running"
    /\ \E n \in mcRun.pending, e \in McEnvs(mcRun.plan[mcRun.stage], mcIn.manifests) :
          LET i == CHOOSE k \in DOMAIN ClusterNames : ClusterNames[k] = n
          IN  /\ mcRes' = [mcRes EXCEPT ![i] =
                     execute_task(mcRun.plan[mcRun.stage], mcIn.manifests, @, e)]
              /\ mcRun' = [mcRun EXCEPT !.pending = @ \ {n},
                                        !.stage_results = @ \cup {[cluster |-> n, ok |-> e.ok]}]
    /\ UNCHANGED <<now, relVars, ahVars, fnVars, drVars, pvVars, mcIn>>

join_all_First(run) == run.stage_results # {}

\* join_all(task_handles).await returns when every spawned task has ended
join_all(run) == run.pending = {}

\* join_all returns: the results of the stage are kept, and the loop
\* breaks, ends or spawns the next stage
McJoin ==
    /\ mcRun.phase = "running"
    /\ join_all(mcRun)
    /\ LET stage == mcRun.plan[mcRun.stage]
           names == clusters_in_stage(mcIn.targets, stage)
           stage_results ==
               [i \in DOMAIN names |->
                   [cluster |-> names[i], stage |-> mcRun.stage, action |-> stage.action,
                    ok |-> \E r \in mcRun.stage_results : r.cluster = names[i] /\ r.ok]]
           joined == [mcRun EXCEPT !.all_results = @ \o stage_results, !.stage_results = {}]
       IN  mcRun' = IF halts(mcIn.strategy, mcRun.stage_results) \/ mcRun.stage = Len(mcRun.plan)
                    THEN [joined EXCEPT !.phase = "done"]
                    ELSE McSpawn(joined, mcRun.plan, mcRun.stage + 1)
    /\ UNCHANGED <<now, relVars, ahVars, fnVars, drVars, pvVars, mcIn, mcRes>>

(***************************************************************************)
(* Metric history (release_controller.rs, run_metrics_analysis).           *)
(* status.analysisRun.metricHistory is a list of entries, one per metric   *)
(* name, each with the list of its points.  A point carries the instant of *)
(* its pass; its value plays no part in the bookkeeping and is the place   *)
(* of the metric in spec.analysis.metrics, which keeps the points of one   *)
(* pass apart.                                                             *)
(***************************************************************************)
MaxPasses == 22        \* analysis passes of one release
MaxLostWrites == 1     \* passes whose status write the apiserver refuses
HistoryCap == 20       \* `if h.values.len() > 20`

MetricNames == {"error_rate", "latency"}

\* spec.analysis.metrics: the names, which need not differ
MetricLists ==
    UNION {[1..n -> MetricNames] : n \in 1..MaxMetrics}

\* the index of the first entry of the history with that name, 0 if none
find_history(history, name) ==
    IF \E i \in DOMAIN history : history[i].name = name
    THEN CHOOSE i \in DOMAIN history :
             /\ history[i].name = name
             /\ \A j \in 1..(i - 1) : history[j].name # name
    ELSE 0

push_point_NoCap(history, name, point) ==
    LET i == find_history(history, name)
    IN  IF i = 0 THEN Append(history, [name |-> name, values |-> <<point>>])
        ELSE [history EXCEPT ![i].values = Append(history[i].values, point)]

\* "Update history regardless of outcome": push the point on the entry of the
\* metric's name and remove(0) when the entry then holds more than 20 points;
\* a name without an entry gets a new one
push_point(history, name, point) ==
    LET i == find_history(history, name)
        pushed == Append(history[i].values, point)
    IN  IF i = 0 THEN Append(history, [name |-> name, values |-> <<point>>])
        ELSE [history EXCEPT ![i].values =
                  IF Len(pushed) > HistoryCap THEN Tail(pushed) ELSE pushed]

\* the `for metric in metrics` loop of run_metrics_analysis from metric k on
RECURSIVE new_history(_, _, _, _)
new_history(history, metrics, k, t) ==
    IF k > Len(metrics) THEN history
    ELSE new_history(push_point(history, metrics[k], [timestamp |-> t, value |-> k]),
                     metrics, k + 1, t)

HistoryIdle ==
    /\ mhIn = <<"error_rate">>
    /\ mhRun = [history |-> <<>>, passes |-> 0, lost |-> 0]

\* a release whose analysis has not run yet: status.analysisRun is None
HistoryInit ==
    /\ mhIn \in MetricLists
    /\ mhRun = [history |-> <<>>, passes |-> 0, lost |-> 0]

\* one analysis pass of apply_release: run_metrics_analysis on the stored
\* history, then update_status with the new history (in the TrendingWorse
\* branch and in the counting branch alike); a refused write stores nothing
HistoryPass ==
    /\ mhRun.passes < MaxPasses
    /\ \E updOk \in BOOLEAN :
          /\ updOk \/ mhRun.lost < MaxLostWrites
          /\ mhRun' = [ history |-> IF updOk
                                    THEN new_history(mhRun.history, mhIn, 1, mhRun.passes + 1)
                                    ELSE mhRun.history,
                        passes |-> mhRun.passes + 1,
                        lost |-> IF updOk THEN mhRun.lost ELSE mhRun.lost + 1 ]
    /\ UNCHANGED <<now, relVars, ahVars, drVars, pvVars, mcVars, mhIn, anIn, anOut, whResp,
                   exIn, exOut, auxVars>>

(***************************************************************************)
(* Metrics analyzer: the trend of a metric (metrics_analyzer.rs,           *)
(* analyze_trend and the predictive branch of analyze).  Values and        *)
(* timestamps are whole numbers and a trendThreshold is a number of        *)
(* tenths, so that the slope test is exact: slope = num / den.             *)
(***************************************************************************)
MaxHistoryPoints == 3          \* points of the history given to analyze
DefaultTrendThreshold == 1     \* `unwrap_or(0.1)`, in tenths
NoThreshold == -1              \* trendThreshold absent

RECURSIVE SumSeq(_)
SumSeq(s) == IF s = <<>> THEN 0 ELSE Head(s) + SumSeq(Tail(s))

\* analyze_trend: None below two points, else the sums of the regression;
\* the slope is num / den
analyze_trend(history) ==
    LET n == Len(history)
        sum_x == SumSeq([i \in 1..n |-> history[i].timestamp])
        sum_y == SumSeq([i \in 1..n |-> history[i].value])
        sum_xy == SumSeq([i \in 1..n |-> history[i].timestamp * history[i].value])
        sum_xx == SumSeq([i \in 1..n |-> history[i].timestamp * history[i].timestamp])
    IN  IF n < 2 THEN [some |-> FALSE, num |-> 0, den |-> 1]
        ELSE [some |-> TRUE, num |-> n * sum_xy - sum_x * sum_y,
                             den |-> n * sum_xx - sum_x * sum_x]

\* `slope > trend_threshold` on f64: den is never negative; a zero den makes
\* the slope +inf, -inf or NaN, and only +inf is above a threshold
slope_above(trend, tenths) ==
    /\ trend.some
    /\ IF trend.den = 0 THEN trend.num > 0
       ELSE 10 * trend.num > tenths * trend.den

\* metric.predictive_analysis: absent, or enabled with an optional threshold
PredictiveConfigs ==
    {[present |-> FALSE, enabled |-> FALSE, trendThreshold |-> NoThreshold],
     [present |-> TRUE, enabled |-> FALSE, trendThreshold |-> NoThreshold]}
    \cup {[present |-> TRUE, enabled |-> TRUE, trendThreshold |-> th] :
              th \in {NoThreshold, 0, 2}}

\* the stored points of a metric: one per earlier pass, in pass order
Histories ==
    LET Points == [timestamp : {0, 5, 10}, value : {0, 1, 2}]
    IN  {h \in UNION {[1..n -> Points] : n \in 0..MaxHistoryPoints} :
            \A i \in 1..(Len(h) - 1) : h[i].timestamp <= h[i + 1].timestamp}

\* what the query and the condition of the call meet
AnalyzeSamples ==
    {[query |-> "http_error", cond |-> "true"], [query |-> "inf", cond |-> "true"]}
    \cup {[query |-> "finite", cond |-> c] : c \in {"true", "false", "error"}}

\* analyze(metric, history) for what the query and the condition meet
analyze_metric(in) ==
    LET pa == in.predictive
        trend_threshold ==
            IF pa.trendThreshold = NoThreshold THEN DefaultTrendThreshold
            ELSE pa.trendThreshold
    IN  analyze([ query |-> in.sample.query, cond |-> in.sample.cond,
                  slopeAbove |-> slope_above(analyze_trend(in.history), trend_threshold) ],
                pa.present /\ pa.enabled)

AnalyzeIdle ==
    /\ anIn = [ sample |-> [query |-> "finite", cond |-> "true"],
                predictive |-> [present |-> FALSE, enabled |-> FALSE,
                                trendThreshold |-> NoThreshold],
                history |-> <<>> ]
    /\ anOut = "none"

AnalyzeInit ==
    /\ anIn \in [sample : AnalyzeSamples, predictive : PredictiveConfigs, history : Histories]
    /\ anOut = "none"

\* the call of analyze
Analyze ==
    /\ anOut = "none"
    /\ anOut' = analyze_metric(anIn)
    /\ UNCHANGED <<now, relVars, ahVars, drVars, pvVars, mcVars, mhIn, mhRun, anIn, whResp,
                   exIn, exOut, auxVars>>

(***************************************************************************)
(* Metrics analyzer: PrometheusClient::evaluate_simple_expression, on the  *)
(* tokens of the expression (operands are whole numbers, which differ by   *)
(* more than f64::EPSILON when they differ).                               *)
(***************************************************************************)
MaxComparisons == 3    \* comparisons joined in one expression

RECURSIVE pc_evaluate_simple_expression(_)
pc_evaluate_simple_expression(expression) ==
    LET and == Find(expression, "&&")
        or == Find(expression, "||")
        left_expr(pos) == SubSeq(expression, 1, pos - 1)
        right_expr(pos) == SubSeq(expression, pos + 1, Len(expression))
        found == {k \in 1..Len(Operators) : Find(expression, Operators[k]) # 0}
    IN  IF and # 0
        THEN LET left_result == pc_evaluate_simple_expression(left_expr(and))
                 right_result == pc_evaluate_simple_expression(right_expr(and))
             IN  IF left_result = "error" \/ right_result = "error" THEN "error"
                 ELSE IF left_result = "true" /\ right_result = "true" THEN "true"
                 ELSE "false"
        ELSE IF or # 0
        THEN LET left_result == pc_evaluate_simple_expression(left_expr(or))
                 right_result == pc_evaluate_simple_expression(right_expr(or))
             IN  IF left_result = "error" \/ right_result = "error" THEN "error"
                 ELSE IF left_result = "true" \/ right_result = "true" THEN "true"
                 ELSE "false"
        ELSE IF found = {} THEN "error"
        ELSE LET k == CHOOSE x \in found : \A y \in found : x <= y
                 pos == Find(expression, Operators[k])
                 left == ParseF64(left_expr(pos))
                 right == ParseF64(right_expr(pos))
             IN  IF ~left.ok \/ ~right.ok THEN "error"
                 ELSE IF Compare(Operators[k], left.val, right.val) THEN "true"
                 ELSE "false"

\* expressions of 1..MaxComparisons comparisons joined by && and ||
Expressions ==
    LET Comparisons == [l : {"1", "2", "3"}, op : {Operators[k] : k \in DOMAIN Operators},
                        r : {"2"}]
        Tokens(cs, js) ==
            [p \in 1..(4 * Len(cs) - 1) |->
                LET k == (p - 1) \div 4 + 1
                IN  CASE (p - 1) % 4 = 0 -> cs[k].l
                      [] (p - 1) % 4 = 1 -> cs[k].op
                      [] (p - 1) % 4 = 2 -> cs[k].r
                      [] OTHER -> js[k]]
    IN  UNION {{Tokens(cs, js) : cs \in [1..n -> Comparisons],
                                 js \in [1..(n - 1) -> {"&&", "||"}]} :
               n \in 1..MaxComparisons}

ExprIdle == exIn = <<"1", "<", "2">> /\ exOut = "none"

ExprInit == exIn \in Expressions /\ exOut = "none"

\* the call of evaluate_simple_expression
Evaluate ==
    /\ exOut = "none"
    /\ exOut' = pc_evaluate_simple_expression(exIn)
    /\ UNCHANGED <<now, relVars, ahVars, drVars, pvVars, mcVars,
                   mhIn, mhRun, anIn, anOut, whResp, exIn, auxVars>>

(***************************************************************************)
(* The duration parsers on their own: one string, given to                 *)
(* parse_duration_str (Release) and to parse_duration (AutoHeal).          *)
(***************************************************************************)
MaxDurationLen == 4

DurationChars == {" ", "+", "-", ".", "0", "3", "s", "m", "h", "x"}

DurationStrings ==
    UNION {[1..n -> DurationChars] : n \in 0..MaxDurationLen}

Rejected == [ok |-> FALSE, secs |-> 0]

NoDuration == [called |-> FALSE, release |-> Rejected, autoheal |-> Rejected]

DurationIdle == duIn = <<>> /\ duOut = NoDuration

DurationInit == duIn \in DurationStrings /\ duOut = NoDuration

\* the two calls, on the same string
ParseDuration ==
    /\ ~duOut.called
    /\ duOut' = [called |-> TRUE,
                 release |-> parse_duration_str(duIn),
                 autoheal |-> parse_duration(duIn)]
    /\ UNCHANGED <<now, relVars, ahVars, drVars, pvVars, mcVars,
                   mhIn, mhRun, anIn, anOut, whResp, exIn, exOut, duIn, rpIn, rpOut,
                   syVars>>

(***************************************************************************)
(* The replica split of initial_setup (release_controller.rs), taken when  *)
(* get_traffic_manager_client finds no traffic manager.  The arithmetic is *)
(* on u8: a product above 255 panics in a build with overflow checks (the  *)
(* dev profile) and wraps modulo 256 in one without (the release profile). *)
(***************************************************************************)
MaxTrafficPercent == 100   \* canary.trafficPercent runs 0..MaxTrafficPercent
DEFAULT_REPLICAS == 5
U8 == 256

\* a * b on u8
U8Mul(a, b, overflow_checks) ==
    IF a * b < U8 THEN [panicked |-> FALSE, val |-> a * b]
    ELSE IF overflow_checks THEN [panicked |-> TRUE, val |-> 0]
    ELSE [panicked |-> FALSE, val |-> (a * b) % U8]

\* a - b on u8
U8Sub(a, b, overflow_checks) ==
    IF a >= b THEN [panicked |-> FALSE, val |-> a - b]
    ELSE IF overflow_checks THEN [panicked |-> TRUE, val |-> 0]
    ELSE [panicked |-> FALSE, val |-> (a - b) % U8]

NoSplit == [called |-> FALSE, panicked |-> FALSE, canary |-> 0, stable |-> 0]

\* canary_replicas_scaled and stable_replicas_scaled, as patched
replica_split(traffic_percent, overflow_checks) ==
    LET product == U8Mul(DEFAULT_REPLICAS, traffic_percent, overflow_checks)
        canary_replicas_scaled == product.val \div 100
        stable == U8Sub(DEFAULT_REPLICAS, canary_replicas_scaled, overflow_checks)
    IN  IF product.panicked \/ stable.panicked
        THEN [NoSplit EXCEPT !.called = TRUE, !.panicked = TRUE]
        ELSE [called |-> TRUE, panicked |-> FALSE,
              canary |-> canary_replicas_scaled, stable |-> stable.val]

ReplicasIdle == rpIn = 0 /\ rpOut = NoSplit

ReplicasInit == rpIn \in 0..MaxTrafficPercent /\ rpOut = NoSplit

\* the else branch of "Traffic Splitting Logic", in either build
ScaleReplicas ==
    /\ ~rpOut.called
    /\ \E overflow_checks \in BOOLEAN :
          rpOut' = replica_split(rpIn, overflow_checks)
    /\ UNCHANGED <<now, relVars, ahVars, drVars, pvVars, mcVars,
                   mhIn, mhRun, anIn, anOut, whResp, exIn, exOut, duIn, duOut, rpIn,
                   syVars>>

(***************************************************************************)
(* Git sync engine (src/modules/sync_engine/src/sync.rs).                  *)
(* The commits of the two repositories form one history: a root and two    *)
(* lines of commits that leave it.  A repository is the commit its branch  *)
(* main points to; the cursor file holds the two OIDs of SyncState, or is  *)
(* absent.                                                                 *)
(***************************************************************************)
MaxLine == 2           \* commits on each of the two lines

NoOid == <<"none">>    \* None, and the parent of the root commit

Root == <<"root">>

\* a commit is the root or the k-th commit of line "a" or of line "b"
Commits == {Root} \cup {<<l, k>> : l \in {"a", "b"}, k \in 1..MaxLine}

Parent(c) ==
    IF c = Root THEN NoOid
    ELSE IF c[2] = 1 THEN Root ELSE <<c[1], c[2] - 1>>

\* the commits reachable from c, c included
RECURSIVE Reachable(_)
Reachable(c) == IF c = NoOid THEN {} ELSE {c} \cup Reachable(Parent(c))

\* Repository::merge_base: the best common ancestor
merge_base(one, two) ==
    CHOOSE c \in Reachable(one) \cap Reachable(two) :
        \A d \in Reachable(one) \cap Reachable(two) : d \in Reachable(c)

\* Repository::graph_ahead_behind(local, upstream).0
graph_ahead(local, upstream) == Cardinality(Reachable(local) \ Reachable(upstream))

\* SyncState::default(), and the state loaded when the file does not exist
NoSyncState == [last_source_synced_oid |-> NoOid, last_target_synced_oid |-> NoOid]

find_sync_base(state, source_oid, target_oid) ==
    IF state.last_source_synced_oid # NoOid /\ state.last_target_synced_oid # NoOid
    THEN merge_base(state.last_source_synced_oid, state.last_target_synced_oid)
    ELSE merge_base(source_oid, target_oid)

\* the cursor after a push that leaves the pushing head untouched
synced_state_KeepOther(state, head, other) ==
    [last_source_synced_oid |-> head, last_target_synced_oid |-> other]

\* the cursor run writes after a push of head: both OIDs are head
synced_state(state, head, other) ==
    [last_source_synced_oid |-> head, last_target_synced_oid |-> head]

\* push_commits with the refspec refs/heads/main:refs/heads/main (no '+'):
\* the branch of the other repository moves to head only by fast-forward
push_commits(head, other, e) == e.pushOk /\ other \in Reachable(head)

SyncRunLast(result, source_ahead, target_ahead, push, pushed) ==
    [ result |-> result, source_ahead |-> source_ahead, target_ahead |-> target_ahead,
      push |-> push, pushed |-> pushed ]

NoSyncRun == SyncRunLast("none", 0, 0, "none", NoOid)

\* handle_run_sync: SyncEngine::new and SyncEngine::run.  e: whether the two
\* fetches, the push and the write of the state file succeed.
sync_run(repo, file, e) ==
    LET source_head == repo.source
        target_head == repo.target
        base_oid == find_sync_base(file, source_head, target_head)
        source_ahead == graph_ahead(source_head, base_oid)
        target_ahead == graph_ahead(target_head, base_oid)
        Err(push) == [ repo |-> repo, file |-> file,
                       last |-> SyncRunLast("err", source_ahead, target_ahead, push, NoOid) ]
        Pushed(new_repo, head, other) ==
            [ repo |-> new_repo,
              file |-> IF e.saveOk THEN synced_state(file, head, other) ELSE file,
              last |-> SyncRunLast(IF e.saveOk THEN "ok" ELSE "err",
                                   source_ahead, target_ahead, "ok", head) ]
    IN  IF ~e.fetchOk
        THEN [ repo |-> repo, file |-> file,
               last |-> SyncRunLast("err", 0, 0, "none", NoOid) ]
        ELSE IF source_ahead > 0 /\ target_ahead > 0 THEN Err("none")
        ELSE IF source_ahead > 0
        THEN IF push_commits(source_head, target_head, e)
             THEN Pushed([repo EXCEPT !.target = source_head], source_head, target_head)
             ELSE Err("err")
        ELSE IF target_ahead > 0
        THEN IF push_commits(target_head, source_head, e)
             THEN Pushed([repo EXCEPT !.source = target_head], target_head, source_head)
             ELSE Err("err")
        ELSE [ repo |-> repo, file |-> file,
               last |-> SyncRunLast("ok", 0, 0, "none", NoOid) ]

SyncEnvs == [fetchOk : BOOLEAN, pushOk : BOOLEAN, saveOk : BOOLEAN]

SyncIdle ==
    /\ syRepo = [source |-> Root, target |-> Root]
    /\ syFile = NoSyncState
    /\ syLast = NoSyncRun

\* two clones of one repository, never synchronised yet
SyncInit ==
    /\ syRepo \in [source : Commits, target : Commits]
    /\ syFile = NoSyncState
    /\ syLast = NoSyncRun

\* one call of sync-run
SyncRun ==
    /\ \E e \in SyncEnvs :
          LET out == sync_run(syRepo, syFile, e)
          IN  /\ syRepo' = out.repo
              /\ syFile' = out.file
              /\ syLast' = out.last
    /\ UNCHANGED <<now, relVars, ahVars, drVars, pvVars, mcVars,
                   mhIn, mhRun, anIn, anOut, whResp, exIn, exOut, duIn, duOut, rpIn, rpOut>>

\* a commit made on branch main of one of the repositories
SyncCommit ==
    /\ \E side \in {"source", "target"}, c \in Commits :
          /\ Parent(c) = syRepo[side]
          /\ syRepo' = [syRepo EXCEPT ![side] = c]
    /\ UNCHANGED <<now, relVars, ahVars, drVars, pvVars, mcVars,
                   mhIn, mhRun, anIn, anOut, whResp, exIn, exOut, duIn, duOut, rpIn, rpOut,
                   syFile, syLast>>

(***************************************************************************)
(* Specifications.                                                         *)
(***************************************************************************)
AuxIdle == DurationIdle /\ ReplicasIdle /\ SyncIdle

FnIdle == HistoryIdle /\ AnalyzeIdle /\ whResp = NoRequest /\ ExprIdle /\ AuxIdle

RestIdle == DRIdle /\ PreviewIdle /\ McIdle /\ FnIdle

InitRelease == now = 0 /\ ReleaseInit /\ AutoHealIdle /\ RestIdle

NextRelease == ReleaseReconcile \/ ReleaseOnError \/ Tick

SpecRelease == InitRelease /\ [][NextRelease]_vars

\* A canary release with analysis and autoPromote in an environment where no
\* call fails and every metric succeeds.  The Controller runs reconcile again
\* after every requeue and every change of the object, and the clock advances:
\* both steps are weakly fair.
InitPromotion ==
    /\ InitRelease
    /\ relSpec.strategyCanary /\ relSpec.hasAnalysis /\ relSpec.autoPromote
    /\ parse_duration_str(relSpec.interval).ok

NextPromotion == ReleaseReconcileOk \/ AwaitInterval

SpecPromotion ==
    /\ InitPromotion /\ [][NextPromotion]_vars
    /\ WF_vars(ReleaseReconcileOk) /\ WF_vars(AwaitInterval)

\* the AutoHeal controller with the rule of namespace ns1: reconciler, webhook
\* and the process_rule tasks
ExecRules == {"r1"}

InitAutoHeal == now = 0 /\ ReleaseIdle /\ AutoHealInit /\ RestIdle

NextAutoHeal ==
    \/ \E r \in ExecRules : CreateRule(r)
    \/ \E r \in ExecRules : EditRule(r)
    \/ \E r \in ExecRules : DeleteRule(r)
    \/ \E r \in ExecRules : AutoHealReconcile(r)
    \/ Webhook
    \/ \E i \in 1..Len(tasks) : TaskStart(i)
    \/ \E i \in 1..Len(tasks) : TaskAction(i)
    \/ \E i \in 1..Len(tasks) : TaskStatus(i)
    \/ Tick

SpecAutoHeal == InitAutoHeal /\ [][NextAutoHeal]_vars

\* the rule cache with rules in two namespaces: reconciler and webhook dispatch
\* (the spawned tasks are not run)
NextAutoHealCache ==
    \/ \E r \in RuleIds : CreateRule(r)
    \/ \E r \in RuleIds : EditRule(r)
    \/ \E r \in RuleIds : DeleteRule(r)
    \/ \E r \in RuleIds : AutoHealReconcile(r)
    \/ Webhook

SpecAutoHealCache == InitAutoHeal /\ [][NextAutoHealCache]_vars

\* the webhook route with the rules of two namespaces in the cache (the
\* spawned tasks are not run)
NextWebhook ==
    \/ \E r \in RuleIds : CreateRule(r)
    \/ \E r \in RuleIds : AutoHealReconcile(r)
    \/ WebhookPost

SpecWebhook == InitAutoHeal /\ [][NextWebhook]_vars

\* the disaster-recovery controller with one PhgitDisasterRecovery
InitDR ==
    now = 0 /\ ReleaseIdle /\ AutoHealIdle /\ DRInit /\ PreviewIdle /\ McIdle /\ FnIdle

NextDR == DRReconcile \/ DROnError \/ DRAnnotate

SpecDR == InitDR /\ [][NextDR]_vars

\* A PhgitDisasterRecovery with failoverTrigger Automatic and a valid interval
\* in an environment where every health check fails and no API call fails.
\* Every handler run ends in a requeue (interval, 1 s) until the state is
\* terminal, so the reconcile step is weakly fair; the operator may set the
\* annotation at any time, or never.
InitFailover ==
    /\ InitDR
    /\ drSpec.trigger = "Automatic"
    /\ parse_duration_str(drSpec.interval).ok

NextFailover == DRReconcileFailing \/ DRAnnotate

SpecFailover == InitFailover /\ [][NextFailover]_vars /\ WF_vars(DRReconcileFailing)

\* The Preview controller alone.
InitPreview ==
    now = 0 /\ ReleaseIdle /\ AutoHealIdle /\ DRIdle /\ PreviewIdle /\ McIdle /\ FnIdle

NextPreview == PreviewCreate \/ PreviewEdit \/ PreviewDelete \/ PreviewReconcile

SpecPreview == InitPreview /\ [][NextPreview]_vars

\* The multi-cluster orchestrator alone: one call of execute_action.
InitOrchestrator ==
    now = 0 /\ ReleaseIdle /\ AutoHealIdle /\ DRIdle /\ PreviewIdle /\ McInit /\ FnIdle

NextOrchestrator == McExecute \/ McTask \/ McJoin

SpecOrchestrator == InitOrchestrator /\ [][NextOrchestrator]_vars

\* The metric history of one release over its analysis passes.
InitHistory ==
    /\ now = 0 /\ ReleaseIdle /\ AutoHealIdle /\ DRIdle /\ PreviewIdle /\ McIdle
    /\ HistoryInit /\ AnalyzeIdle /\ whResp = NoRequest /\ ExprIdle /\ AuxIdle

NextHistory == HistoryPass

SpecHistory == InitHistory /\ [][NextHistory]_vars

\* One call of PrometheusClient::analyze on every input of the model.
InitAnalyze ==
    /\ now = 0 /\ ReleaseIdle /\ AutoHealIdle /\ DRIdle /\ PreviewIdle /\ McIdle
    /\ HistoryIdle /\ AnalyzeInit /\ whResp = NoRequest /\ ExprIdle /\ AuxIdle

NextAnalyze == Analyze

SpecAnalyze == InitAnalyze /\ [][NextAnalyze]_vars

\* One call of PrometheusClient::evaluate_simple_expression on every
\* expression of the model.
InitExpr ==
    /\ now = 0 /\ ReleaseIdle /\ AutoHealIdle /\ DRIdle /\ PreviewIdle /\ McIdle
    /\ HistoryIdle /\ AnalyzeIdle /\ whResp = NoRequest /\ ExprInit /\ AuxIdle

NextExpr == Evaluate

SpecExpr == InitExpr /\ [][NextExpr]_vars

\* One call of each duration parser on every string of the model.
InitDuration ==
    /\ now = 0 /\ ReleaseIdle /\ AutoHealIdle /\ DRIdle /\ PreviewIdle /\ McIdle
    /\ HistoryIdle /\ AnalyzeIdle /\ whResp = NoRequest /\ ExprIdle /\ DurationInit
    /\ ReplicasIdle /\ SyncIdle

NextDuration == ParseDuration

SpecDuration == InitDuration /\ [][NextDuration]_vars

\* The replica split of initial_setup for every trafficPercent of the model.
InitReplicas ==
    /\ now = 0 /\ ReleaseIdle /\ AutoHealIdle /\ DRIdle /\ PreviewIdle /\ McIdle
    /\ HistoryIdle /\ AnalyzeIdle /\ whResp = NoRequest /\ ExprIdle /\ DurationIdle
    /\ ReplicasInit /\ SyncIdle

NextReplicas == ScaleReplicas

SpecReplicas == InitReplicas /\ [][NextReplicas]_vars

\* Runs of the sync engine between commits on either repository.
InitSync ==
    /\ now = 0 /\ ReleaseIdle /\ AutoHealIdle /\ DRIdle /\ PreviewIdle /\ McIdle
    /\ HistoryIdle /\ AnalyzeIdle /\ whResp = NoRequest /\ ExprIdle /\ DurationIdle
    /\ ReplicasIdle /\ SyncInit

NextSync == SyncRun \/ SyncCommit

SpecSync == InitSync /\ [][NextSync]_vars

(***************************************************************************)
(* Properties of the Release controller (SpecRelease).                     *)
(***************************************************************************)
AnalysisWrote == relLast.kind = "analysis" /\ relLast.wrote
NoTrendingWorse == \A i \in DOMAIN relLast.results : relLast.results[i] # "TrendingWorse"
PromotedPhase == IF relSpec.autoPromote THEN "Promoting" ELSE "Paused"
Effective(p) == IF p = NoPhase THEN "Progressing" ELSE p

\* C1 as stated: whenever an analysis pass leaves successCount >= threshold, the
\* status written by that reconcile has phase Promoting if autoPromote is set
\* and Paused if it is not.
C1_AsStated ==
    (AnalysisWrote /\ relLast.sc >= relSpec.threshold) => relLast.to = PromotedPhase

\* C1, amended: whenever an analysis pass in which no metric is TrendingWorse
\* leaves successCount >= threshold, the status written by that reconcile has
\* phase Promoting if autoPromote is set and Paused if it is not.
C1_PromoteOnThreshold ==
    (AnalysisWrote /\ NoTrendingWorse /\ relLast.sc >= relSpec.threshold)
        => relLast.to = PromotedPhase

\* two passing analysis passes reach threshold 2 and the release is promoted
C1_Witness ==
    /\ AnalysisWrote /\ NoTrendingWorse
    /\ relSpec.threshold = 2 /\ relLast.sc0 = 1 /\ relLast.sc = 2
    /\ relSpec.autoPromote /\ relStatus.phase = "Promoting"

\* C2 as stated: whenever an analysis pass leaves failureCount >= maxFailures,
\* the status written by that reconcile has phase RollingBack, for every
\* threshold and maxFailures.
C2_AsStated ==
    (AnalysisWrote /\ relLast.fc >= relSpec.maxFailures) => relLast.to = "RollingBack"

\* C2, amended: whenever an analysis pass in which no metric is TrendingWorse
\* leaves failureCount >= maxFailures and successCount < threshold, the status
\* written by that reconcile has phase RollingBack.
C2_RollbackOnMaxFailures ==
    (AnalysisWrote /\ NoTrendingWorse /\ relLast.fc >= relSpec.maxFailures
        /\ relLast.sc < relSpec.threshold) => relLast.to = "RollingBack"

\* two failing analysis passes reach maxFailures 2 and the release rolls back
C2_Witness ==
    /\ AnalysisWrote /\ NoTrendingWorse
    /\ relSpec.maxFailures = 2 /\ relLast.fc0 = 1 /\ relLast.fc = 2
    /\ relStatus.phase = "RollingBack"

\* C3: a metric whose query fails is classified Inconclusive, and an analysis
\* pass containing such a metric neither increments failureCount nor moves the
\* release to RollingBack.
C3_TelemetryNeverRollsBack ==
    (relLast.kind = "analysis" /\ relLast.qfail # {}) =>
        /\ \A i \in relLast.qfail : relLast.results[i] = "Inconclusive"
        /\ relLast.fc = relLast.fc0
        /\ ~(relLast.wrote /\ relLast.to = "RollingBack")

\* C23: if any metric of an analysis pass is classified TrendingWorse, the
\* status that reconcile writes has phase Paused and the successCount and
\* failureCount it read, whatever the other results and the counter values;
\* the counters of the stored status are the ones read.
C23_TrendPauses ==
    (relLast.kind = "analysis" /\ ~NoTrendingWorse) =>
        /\ relLast.sc = relLast.sc0 /\ relLast.fc = relLast.fc0
        /\ relStatus.successCount = relLast.sc0
        /\ relStatus.failureCount = relLast.fc0
        /\ relLast.wrote => relLast.to = "Paused" /\ relStatus.phase = "Paused"

\* a pass with one metric TrendingWorse and one Failure, on counters that are
\* one success short of the threshold, pauses the release
C23_Witness ==
    /\ AnalysisWrote
    /\ Len(relLast.results) = 2
    /\ relLast.results[1] = "Failure" /\ relLast.results[2] = "TrendingWorse"
    /\ relSpec.threshold = 2 /\ relLast.sc0 = 1 /\ relStatus.successCount = 1
    /\ relLast.from = "Progressing" /\ relStatus.phase = "Paused"

\* C25: the latency histogram receives one observation exactly in the handler
\* runs that take the release from Progressing to Promoting or to RollingBack,
\* and none in any other run (none on a move to Paused, none while the phase
\* stays Progressing).
C25_AsStated ==
    [][relMetrics'.latencyObs - relMetrics.latencyObs =
          IF /\ relStatus.phase = "Progressing"
             /\ relStatus'.phase \in {"Promoting", "RollingBack"}
          THEN 1 ELSE 0]_vars

\* C27: a canary release with autoPromote and threshold N, in an environment
\* where every metric succeeds and no API call fails, changes phase only from
\* absent to Progressing, from Progressing to Promoting (with N successes, or
\* one when N is 0) and from Promoting to Succeeded, and under fair scheduling
\* of the reconciles it ends Succeeded with trafficSplit "stable: 100%, canary:
\* 0%" and stableVersion equal to spec.version.
C27_AsStated ==
    /\ [][relStatus'.phase # relStatus.phase =>
            \/ relStatus.phase = NoPhase /\ relStatus'.phase = "Progressing"
            \/ /\ relStatus.phase = "Progressing" /\ relStatus'.phase = "Promoting"
               /\ relStatus'.successCount >= relSpec.threshold
               /\ relStatus'.successCount <= IF relSpec.threshold = 0 THEN 1
                                              ELSE relSpec.threshold
            \/ relStatus.phase = "Promoting" /\ relStatus'.phase = "Succeeded"]_vars
    /\ <>[](/\ relStatus.phase = "Succeeded"
            /\ relStatus.trafficSplit = "stable: 100%, canary: 0%"
            /\ relStatus.stableVersion = "spec.version")

\* the edges of the phase machine
PhaseEdges ==
    { <<"Progressing", "Promoting">>, <<"Progressing", "Paused">>,
      <<"Progressing", "RollingBack">>, <<"Promoting", "Succeeded">>,
      <<"RollingBack", "Failed">> }

\* C4: every change of status.phase written by reconcile or on_error follows
\* one of the edges of the phase machine, or is the move to Failed of a failed
\* signature preflight.
C4_OnlyPhaseEdges ==
    (relLast.wrote /\ Effective(relLast.from) # relLast.to) =>
        \/ <<Effective(relLast.from), relLast.to>> \in PhaseEdges
        \/ relLast.kind = "preflight" /\ relLast.to = "Failed"

\* C5: once status.phase is Succeeded or Failed no handler run changes it (the
\* user never edits the release in this model).
C5_TerminalIsFinal ==
    [][relStatus.phase \in {"Succeeded", "Failed"} => relStatus'.phase = relStatus.phase]_vars

(***************************************************************************)
(* Properties of the AutoHeal controller (SpecAutoHeal, SpecAutoHealCache).*)
(***************************************************************************)
InOrder(n) == [k \in 1..n |-> k]

\* C6: an alert that matches a rule and is received (and taken up) before the
\* rule's lastExecutionTime + cooldown runs no action, creates no Job and
\* patches no status: its task ends at the cooldown check.
C6_CooldownSkips ==
    /\ \A i \in 1..Len(tasks) : tasks[i].inCooldown => tasks[i].pc = "start"
    /\ \A s \in ahLog.finished : s.inCooldown => s.end \in {"skip", "err"}

\* C7: once the finalizer of a deleted rule has been removed, the cache holds
\* no entry for that rule under any key.
C7_NoEntryAfterCleanup ==
    \A r \in RuleIds : rules[r].state = "gone" => \A t \in Triggers : cache[t].id # r

\* C8: when the reconciler has processed every rule event, each existing rule,
\* whatever its namespace, is the cache value under its spec.triggerName.
C8_CacheMatchesApiserver ==
    (\A r \in RuleIds : ~rules[r].dirty) =>
        \A r \in RuleIds : rules[r].state = "live" => cache[rules[r].trigger].id = r

\* C9: status.executionsCount of a rule equals the number of executions of the
\* rule that passed the cooldown check and patched the status.
C9_CountsEveryExecution ==
    \A r \in RuleIds : OnApiserver(r) => rules[r].execCount = ahLog.execs[r]

\* C10: a task that passes the cooldown check attempts every action of
\* spec.actions in the declared order and then patches the status, whether or
\* not actions fail.
C10_FailureIsolation ==
    /\ \A i \in 1..Len(tasks) :
          /\ tasks[i].pc = "start" => tasks[i].attempted = <<>>
          /\ tasks[i].pc = "action" => tasks[i].attempted = InOrder(tasks[i].idx - 1)
          /\ tasks[i].pc = "status" =>
                tasks[i].attempted = InOrder(Len(tasks[i].rule.actions))
    /\ \A s \in ahLog.finished :
          \/ s.end \in {"skip", "err"} /\ s.attempted = <<>>
          \/ s.end \in {"patched", "patch_failed"} /\ s.attempted = InOrder(s.n)

\* the first of two actions failed, the second was attempted, the status patched
C10_Witness ==
    \E s \in ahLog.finished :
        s.n = 2 /\ 1 \in s.failed /\ s.attempted = <<1, 2>> /\ s.end = "patched"

\* C29: every POST /webhook whose body carries an alerts list is answered
\* 202, whether or not an alert matches a rule; an alert without alertname or
\* with no cached rule for it starts no task, and every alert whose alertname
\* is a key of the cache starts exactly one task, in the order of the list.
C29_AsStated ==
    [][(whResp' # whResp \/ tasks' # tasks) =>
          /\ whResp'.code = 202
          /\ LET body == whResp'.body
                 keyed == {i \in DOMAIN body : /\ body[i].labels \in Triggers
                                               /\ cache[body[i].labels] # NoRule}
             IN  /\ tasks' = tasks \o whResp'.spawned
                 /\ Len(whResp'.spawned) = Cardinality(keyed)
                 /\ \A k \in DOMAIN whResp'.spawned :
                        \E i \in keyed :
                            /\ Cardinality({j \in keyed : j < i}) = k - 1
                            /\ whResp'.spawned[k].rule = cache[body[i].labels]]_vars

(***************************************************************************)
(* Properties of the disaster-recovery controller (SpecDR).                *)
(***************************************************************************)
DRMonitoring == drStatus.state \in {NoState, "Monitoring"}

\* C11 as stated: the resource has reached Degraded if and only if
\* consecutiveFailures >= failureThreshold held after some health check, for
\* every failureThreshold.
C11_AsStated == drHist.everDegraded <=> drHist.everAtThreshold

\* C11, amended: the resource has reached Degraded if and only if
\* consecutiveFailures >= failureThreshold held after some failed health check
\* whose status was written.
C11_DegradedIffFailedAtThreshold == drHist.everDegraded <=> drHist.everFailedAtThreshold

\* the second of two failed checks reaches failureThreshold 2 and Degraded
C11_Witness ==
    /\ drSpec.failureThreshold = 2 /\ drLast.check = "fail" /\ drLast.cf0 = 1
    /\ drStatus.state = "Degraded" /\ drStatus.consecutiveFailures = 2

\* C12: in state Monitoring consecutiveFailures equals the number of
\* consecutive failed health checks since the most recent successful one, a
\* check counting when the reconcile that made it wrote its status: each failed
\* check adds exactly one, each successful check resets the count to 0 and
\* keeps the state Monitoring.
C12_CountsRecordedFailures ==
    /\ DRMonitoring => drStatus.consecutiveFailures = drHist.recordedRun
    /\ (drLast.check = "fail" /\ drLast.wrote) =>
            drStatus.consecutiveFailures = drLast.cf0 + 1
    /\ (drLast.check = "ok" /\ drLast.wrote) =>
            drStatus.consecutiveFailures = 0 /\ drStatus.state = "Monitoring"

\* a successful check resets a count of 1
C12_Witness ==
    /\ drLast.check = "ok" /\ drLast.wrote /\ drLast.cf0 = 1
    /\ drStatus.consecutiveFailures = 0 /\ drStatus.state = "Monitoring"

\* C13: FailingOver is entered, and the primary Deployment scaled to zero, only
\* from Degraded and only with trigger Automatic or the annotation
\* ph.io/failover=true; with trigger Manual and no such annotation a reconcile
\* in Degraded leaves the state and the clusters as they are.
C13_FailoverOnlyWhenTriggered ==
    LET triggered == drLast.trigger = "Automatic" \/ drLast.annotation = "true"
    IN  /\ (drLast.wrote /\ drLast.to = "FailingOver" /\ drLast.from # "FailingOver") =>
                drLast.from = "Degraded" /\ triggered
        /\ drLast.writes > 0 => drLast.from = "FailingOver"
        /\ drCluster.primaryScaledDown => drHist.failoverFrom = "Degraded"
        /\ (drLast.kind = "degraded" /\ ~triggered) =>
                drLast.to = "Degraded" /\ ~drLast.wrote /\ drLast.writes = 0

\* a manual failover: the annotation is set and the primary is scaled down
C13_Witness ==
    /\ drSpec.trigger = "Manual" /\ drMeta.annotation = "true"
    /\ drLast.kind = "failing_over" /\ drCluster.primaryScaledDown

\* C14: once the state is ActiveOnDR or Failed, no step changes status.state,
\* activeCluster or the clusters (the spec is never edited here).
C14_TerminalIsQuiet ==
    [][drStatus.state \in {"ActiveOnDR", "Failed"} =>
          /\ drStatus'.state = drStatus.state
          /\ drStatus'.activeCluster = drStatus.activeCluster
          /\ drCluster' = drCluster]_vars

\* a reconcile has run in state ActiveOnDR
C14_Witness ==
    drLast.kind = "terminal" /\ drLast.from = "ActiveOnDR" /\ drStatus.state = "ActiveOnDR"

\* C28: with failoverTrigger Automatic and failureThreshold N, when every
\* health check fails and no API call fails, the state changes only from
\* Monitoring to Degraded (at the N-th failure, the first when N is 0), from
\* Degraded to FailingOver and from FailingOver to ActiveOnDR, and ActiveOnDR
\* is reached and kept, with activeCluster DR, the primary Deployment scaled
\* to 0, the labelled Secrets and ConfigMaps copied and the DR Deployment
\* applied and scaled to drCluster.replicas.
C28_FailoverLive ==
    /\ [][drStatus'.state # drStatus.state =>
            \/ /\ drStatus.state \in {NoState, "Monitoring"}
               /\ drStatus'.state = "Degraded"
               /\ drStatus'.consecutiveFailures =
                      (IF drSpec.failureThreshold = 0 THEN 1 ELSE drSpec.failureThreshold)
               /\ ~drCluster'.primaryScaledDown
            \/ /\ drStatus.state = "Degraded" /\ drStatus'.state = "FailingOver"
               /\ ~drCluster'.primaryScaledDown
            \/ drStatus.state = "FailingOver" /\ drStatus'.state = "ActiveOnDR"]_vars
    /\ <>[](/\ drStatus.state = "ActiveOnDR"
            /\ drStatus.activeCluster = "DR"
            /\ drCluster.primaryScaledDown /\ drCluster.replicated
            /\ drCluster.drApplied /\ drCluster.drScaledUp)

\* two failed health checks with failureThreshold 2 have ended in ActiveOnDR
C28_Witness ==
    /\ drSpec.failureThreshold = 2 /\ drSpec.trigger = "Automatic"
    /\ drStatus.state = "ActiveOnDR" /\ drStatus.consecutiveFailures = 2
    /\ drHist.checks = 2 /\ drHist.failoverFrom = "Degraded"
    /\ drCluster.primaryScaledDown /\ drCluster.drScaledUp

(***************************************************************************)
(* Properties of the Preview controller (SpecPreview).                     *)
(***************************************************************************)
\* C15: on deletion of a Preview the finalizer is removed only after the
\* apiserver accepted the namespace delete (success, or NotFound): whenever
\* a reconcile removes the finalizer of a Preview under deletion, the
\* namespace of that Preview is gone from the cluster.
C15_AsStated ==
    [][\A i \in PreviewIds :
          pvObj[i].deleting /\ ~pvObj'[i].exists =>
              generate_namespace_name(pvObj[i]) \notin pvNamespaces']_vars

\* C16: for each Preview that is not being deleted and that apply_preview
\* has given a namespace, exactly one of the namespaces the controller made
\* for it exists, whatever creations, edits of branch or appName,
\* re-reconciles and deletions came before.
C16_AsStated ==
    \A i \in PreviewIds :
        pvObj[i].exists /\ ~pvObj[i].deleting /\ pvObj[i].made # {} =>
            Cardinality(pvObj[i].made \cap pvNamespaces) = 1

\* C17: generate_namespace_name is injective on distinct UIDs: two Previews
\* with different UIDs never carry the same namespace name in their status.
C17_AsStated ==
    \A i, j \in PreviewIds :
        /\ i # j
        /\ pvObj[i].uid # pvObj[j].uid
        /\ pvObj[i].statusNs # <<>>
        /\ pvObj[j].statusNs # <<>>
        => pvObj[i].statusNs # pvObj[j].statusNs

(***************************************************************************)
(* Properties of the multi-cluster orchestrator (SpecOrchestrator).        *)
(***************************************************************************)
\* C18: under the Staged strategy, if any cluster of a stage fails, no later
\* stage is executed: the failed stage is the last one spawned, the call is
\* over, and no result belongs to a later stage.
C18_StagedHaltsOnFailure ==
    mcIn.strategy = "Staged" =>
        \A k \in DOMAIN mcRun.all_results :
            ~mcRun.all_results[k].ok =>
                /\ mcRun.phase = "done"
                /\ mcRun.stage = mcRun.all_results[k].stage
                /\ \A j \in DOMAIN mcRun.all_results :
                       mcRun.all_results[j].stage <= mcRun.all_results[k].stage

C18_Witness ==
    /\ mcIn.strategy = "Staged"
    /\ mcRun.phase = "done"
    /\ Len(mcRun.plan) > 1
    /\ mcRun.stage = 1
    /\ \E j, k \in DOMAIN mcRun.all_results :
          mcRun.all_results[j].ok /\ ~mcRun.all_results[k].ok

\* C19: the Failover strategy plans one stage per target cluster, in
\* ascending order of the names, and stops at the first stage that
\* succeeds: a successful result is the last result of the call, so at
\* most one cluster ends with a successful apply.
C19_FailoverStopsAtFirstSuccess ==
    mcIn.strategy = "Failover" /\ mcRun.phase # "idle" =>
        /\ Len(mcRun.plan) = Len(mcIn.targets)
        /\ \A i \in DOMAIN mcRun.plan : Len(mcRun.plan[i].targets) = 1
        /\ \A i, j \in DOMAIN mcRun.plan :
               i < j => NameLess(mcRun.plan[i].targets[1], mcRun.plan[j].targets[1])
        /\ \A k \in DOMAIN mcRun.all_results :
               mcRun.all_results[k].ok =>
                   /\ k = Len(mcRun.all_results)
                   /\ mcRun.phase = "done"
                   /\ mcRun.stage = mcRun.all_results[k].stage
        /\ Cardinality({k \in DOMAIN mcRun.all_results : mcRun.all_results[k].ok}) <= 1

C19_Witness ==
    /\ mcIn.strategy = "Failover"
    /\ mcRun.phase = "done"
    /\ Len(mcIn.targets) = 3
    /\ Len(mcRun.all_results) = 2
    /\ ~mcRun.all_results[1].ok /\ mcRun.all_results[1].cluster = <<1>>
    /\ mcRun.all_results[2].ok /\ mcRun.all_results[2].cluster = <<1, 0>>

\* C20: after a BlueGreen plan has completed on a cluster (its four stages
\* succeeded there), the resources of the application on that cluster are
\* exactly the green-labelled ones: no blue-labelled resource remains.
C20_AsStated ==
    mcIn.strategy = "BlueGreen" /\ mcRun.phase = "done" =>
        \A i \in DOMAIN ClusterNames :
            (\A n \in 1..4 : \E k \in DOMAIN mcRun.all_results :
                 /\ mcRun.all_results[k].cluster = ClusterNames[i]
                 /\ mcRun.all_results[k].stage = n
                 /\ mcRun.all_results[k].ok)
            => mcRes[i] = Labelled(mcIn.manifests.docs, "green", mcIn.manifests.namespace)

\* C21: the stages run one after the other in plan order: the tasks of stage
\* i+1 are spawned only when no task of stage i is still running and every
\* cluster of stage i has its result; inside a stage the tasks end in any
\* order.
C21_StagesSequential ==
    [][mcRun'.stage # mcRun.stage =>
          /\ mcRun'.stage = mcRun.stage + 1
          /\ mcRun.pending = {}
          /\ mcRun.stage > 0 =>
                \A n \in {mcIn.targets[j].name : j \in DOMAIN mcIn.targets} :
                    (\E t \in DOMAIN mcRun.plan[mcRun.stage].targets :
                         mcRun.plan[mcRun.stage].targets[t] = n)
                    => \E k \in DOMAIN mcRun'.all_results :
                           /\ mcRun'.all_results[k].cluster = n
                           /\ mcRun'.all_results[k].stage = mcRun.stage]_vars

\* a second stage in which the task of the cluster listed last has ended
\* and the task of the cluster listed first is still running
C21_Witness ==
    /\ mcRun.phase = "running"
    /\ mcRun.stage = 2
    /\ LET names == clusters_in_stage(mcIn.targets, mcRun.plan[2])
       IN  /\ Len(names) = 2
           /\ names[1] \in mcRun.pending
           /\ \E r \in mcRun.stage_results : r.cluster = names[2]

\* C22: under the Staged strategy every deploy (Apply) stage that succeeded
\* on a cluster is followed by a health check of that cluster, and the next
\* deploy stage starts, or the call ends, only after that health check.
C22_AsStated ==
    mcIn.strategy = "Staged" =>
        \A k \in DOMAIN mcRun.all_results :
            /\ mcRun.all_results[k].action = "Apply"
            /\ mcRun.all_results[k].ok
            /\ mcRun.phase = "done" \/ mcRun.stage > mcRun.all_results[k].stage
            => \E j \in DOMAIN mcRun.all_results :
                   /\ j > k
                   /\ mcRun.all_results[j].action = "HealthCheck"
                   /\ mcRun.all_results[j].cluster = mcRun.all_results[k].cluster

(***************************************************************************)
(* Properties of the metric history (SpecHistory).                         *)
(***************************************************************************)
\* the points stored under a name, oldest first
PointsOf(history, name) ==
    IF \E i \in DOMAIN history : history[i].name = name
    THEN history[CHOOSE i \in DOMAIN history : history[i].name = name].values
    ELSE <<>>

\* the points of one pass at instant t for the metrics called name, in the
\* order of spec.analysis.metrics
RECURSIVE PassPoints(_, _, _, _)
PassPoints(metrics, name, k, t) ==
    IF k > Len(metrics) THEN <<>>
    ELSE (IF metrics[k] = name THEN <<[timestamp |-> t, value |-> k]>> ELSE <<>>)
             \o PassPoints(metrics, name, k + 1, t)

\* C24: the history has one entry per metric name and each entry holds at
\* most 20 points; a pass whose status is written appends one point per
\* configured metric to the entry of its name, and when that exceeds 20 the
\* oldest points are dropped and the others keep their order.
C24_HistoryBounded ==
    [][(mhRun'.passes # mhRun.passes /\ mhRun'.lost = mhRun.lost) =>
          /\ \A i, j \in DOMAIN mhRun'.history :
                 mhRun'.history[i].name = mhRun'.history[j].name => i = j
          /\ \A name \in MetricNames :
                 LET all == PointsOf(mhRun.history, name)
                                \o PassPoints(mhIn, name, 1, mhRun'.passes)
                     kept == PointsOf(mhRun'.history, name)
                 IN  /\ Len(kept) <= HistoryCap
                     /\ Len(kept) = IF Len(all) > HistoryCap THEN HistoryCap ELSE Len(all)
                     /\ kept = SubSeq(all, Len(all) - Len(kept) + 1, Len(all))]_vars

\* the 22nd pass of a release with two metrics: the entry of the first holds
\* the points of the last 20 written passes, oldest first
C24_Witness ==
    /\ Len(mhIn) = 2 /\ mhIn[1] # mhIn[2]
    /\ mhRun.passes = 22 /\ mhRun.lost = 1
    /\ LET v == PointsOf(mhRun.history, mhIn[1])
       IN  /\ Len(v) = HistoryCap
           /\ v[1].timestamp > 1
           /\ v[HistoryCap].timestamp = 22
           /\ \A i \in 1..(HistoryCap - 1) : v[i].timestamp < v[i + 1].timestamp

(***************************************************************************)
(* Properties of PrometheusClient::analyze (SpecAnalyze).                  *)
(***************************************************************************)
\* C26: analyze returns Inconclusive when the query fails, the value is
\* infinite or the condition cannot be evaluated; Failure when the condition
\* is false, whatever the trend; TrendingWorse when the condition is true,
\* predictiveAnalysis.enabled is set, the history has at least two points and
\* its slope exceeds trendThreshold (0.1 when absent); Success otherwise.
C26_Classification ==
    anOut # "none" =>
        LET q == anIn.sample.query
            c == anIn.sample.cond
            pa == anIn.predictive
            th == IF pa.trendThreshold = NoThreshold THEN 1 ELSE pa.trendThreshold
            t == analyze_trend(anIn.history)
            exceeds == IF t.den = 0 THEN t.num > 0 ELSE 10 * t.num > th * t.den
        IN  anOut =
              IF q = "http_error" \/ q = "inf" \/ c = "error" THEN "Inconclusive"
              ELSE IF c = "false" THEN "Failure"
              ELSE IF pa.present /\ pa.enabled /\ Len(anIn.history) >= 2 /\ exceeds
                   THEN "TrendingWorse"
              ELSE "Success"

\* a passing metric with predictive analysis enabled and no trendThreshold,
\* whose two stored points rise by 1 in 5 seconds (slope 0.2): TrendingWorse
C26_Witness ==
    /\ anOut = "TrendingWorse"
    /\ anIn.predictive.trendThreshold = NoThreshold
    /\ anIn.history = << [timestamp |-> 0, value |-> 0], [timestamp |-> 5, value |-> 1] >>

(***************************************************************************)
(* Properties of evaluate_simple_expression (SpecExpr).                    *)
(***************************************************************************)
\* the truth value of the k-th comparison of an expression
ComparisonHolds(e, k) ==
    Compare(e[4 * k - 2], DigitVal(e[4 * k - 3]), DigitVal(e[4 * k - 1]))

\* the first n comparisons combined from left to right, no precedence
RECURSIVE LeftToRight(_, _)
LeftToRight(e, n) ==
    IF n = 1 THEN ComparisonHolds(e, 1)
    ELSE IF e[4 * (n - 1)] = "&&"
         THEN LeftToRight(e, n - 1) /\ ComparisonHolds(e, n)
         ELSE LeftToRight(e, n - 1) \/ ComparisonHolds(e, n)

\* C30: evaluate_simple_expression returns the truth value of a single
\* comparison, the conjunction of comparisons joined only by &&, their
\* disjunction when joined only by ||, and when both operators appear the
\* value of the expression read from left to right without precedence.
C30_AsStated ==
    exOut # "none" =>
        exOut = (IF LeftToRight(exIn, (Len(exIn) + 1) \div 4) THEN "true" ELSE "false")

(***************************************************************************)
(* Properties of the duration parsers (SpecDuration).                      *)
(***************************************************************************)
\* the contract: digits and then one unit, after the surrounding spaces went
WellFormedDuration(s) ==
    /\ Len(s) >= 2
    /\ AllDigits(SubSeq(s, 1, Len(s) - 1))
    /\ s[Len(s)] \in {"s", "m", "h"}

ContractDuration(str) ==
    LET s == Trim(str)
    IN  IF WellFormedDuration(s)
        THEN [ok |-> TRUE,
              secs |-> DecVal(SubSeq(s, 1, Len(s) - 1)) * UnitSecs(s[Len(s)])]
        ELSE [ok |-> FALSE, secs |-> 0]

\* C31: each of the two duration parsers accepts exactly the trimmed strings
\* made of a non-negative decimal integer n and one unit s, m or h, returns
\* n, 60*n or 3600*n seconds for them, and rejects every other string,
\* signed numbers included.
C31_AsStated ==
    duOut.called =>
        /\ duOut.release = ContractDuration(duIn)
        /\ duOut.autoheal = ContractDuration(duIn)

(***************************************************************************)
(* Availability across a DR failover (SpecDR).                             *)
(***************************************************************************)
\* a state in which no reconcile acts any more
DRResting == drErr = "none" /\ drStatus.state \in {"ActiveOnDR", "Failed"}

\* C32: in no resting state of the DR controller is the primary Deployment
\* at zero replicas while the DR Deployment has not been scaled up; a failover
\* that scaled the primary down rests in ActiveOnDR with the DR side scaled up.
C32_AsStated ==
    (DRResting /\ drCluster.primaryScaledDown) =>
        (drCluster.drScaledUp /\ drStatus.state = "ActiveOnDR")

\* C34: the state becomes Failed only from FailingOver, and a handler run that
\* starts in Monitoring (or with no state yet) or in Degraded with an error to
\* handle leaves the state as it is.
C34_AsStated ==
    [][/\ (drStatus'.state = "Failed" /\ drStatus.state # "Failed")
            => drStatus.state = "FailingOver"
       /\ (drErr # "none" /\ drStatus.state \in {NoState, "Monitoring", "Degraded"})
            => drStatus'.state = drStatus.state]_vars

(***************************************************************************)
(* BlueGreen gating (SpecOrchestrator).                                    *)
(***************************************************************************)
\* the green deploy or the green health check failed on the cluster
GreenFailed(n) ==
    \E k \in DOMAIN mcRun.all_results :
        /\ mcRun.all_results[k].cluster = n
        /\ mcRun.all_results[k].action \in {"Apply", "HealthCheck"}
        /\ ~mcRun.all_results[k].ok

\* C33: under BlueGreen the switch-traffic and decommission-blue stages run on
\* a cluster only if the green deploy and the green health check succeeded on
\* it: no task of those stages is spawned for, or has run on, a cluster where
\* one of the two failed.
C33_AsStated ==
    mcIn.strategy = "BlueGreen" =>
        \A i \in DOMAIN ClusterNames :
            GreenFailed(ClusterNames[i]) =>
                /\ ~(mcRun.phase = "running" /\ mcRun.stage >= 3
                      /\ ClusterNames[i] \in mcRun.pending)
                /\ \A k \in DOMAIN mcRun.all_results :
                       mcRun.all_results[k].cluster = ClusterNames[i]
                           => mcRun.all_results[k].action \notin
                                  {"SwitchTraffic", "DeleteResources"}

(***************************************************************************)
(* The analysis counters of a Release (SpecRelease).                       *)
(***************************************************************************)
PassHas(result) == \E i \in DOMAIN relLast.results : relLast.results[i] = result

PassAllSuccess == \A i \in DOMAIN relLast.results : relLast.results[i] = "Success"

CountersExclusive == ~(relStatus.successCount > 0 /\ relStatus.failureCount > 0)

\* C35 as stated: successCount and failureCount are never both above zero; a
\* pass in which all metrics succeed increments successCount and zeroes
\* failureCount, a pass with a Failure and no Inconclusive increments
\* failureCount and zeroes successCount, and a pass with an Inconclusive
\* changes neither counter.
C35_AsStated ==
    /\ CountersExclusive
    /\ relLast.kind = "analysis" =>
        /\ PassAllSuccess => relLast.sc = relLast.sc0 + 1 /\ relLast.fc = 0
        /\ (PassHas("Failure") /\ ~PassHas("Inconclusive"))
               => relLast.fc = relLast.fc0 + 1 /\ relLast.sc = 0
        /\ PassHas("Inconclusive") => relLast.sc = relLast.sc0 /\ relLast.fc = relLast.fc0

\* C35, amended: successCount and failureCount are never both above zero; a
\* pass in which all metrics succeed increments successCount and zeroes
\* failureCount, a pass with a Failure and neither an Inconclusive nor a
\* TrendingWorse increments failureCount and zeroes successCount, and a pass
\* with an Inconclusive or a TrendingWorse changes neither counter; the stored
\* status carries the counters of the pass once its write is accepted.
C35_CountersExclusive ==
    /\ CountersExclusive
    /\ relLast.kind = "analysis" =>
        /\ PassAllSuccess => relLast.sc = relLast.sc0 + 1 /\ relLast.fc = 0
        /\ (PassHas("Failure") /\ ~PassHas("Inconclusive") /\ ~PassHas("TrendingWorse"))
               => relLast.fc = relLast.fc0 + 1 /\ relLast.sc = 0
        /\ (PassHas("Inconclusive") \/ PassHas("TrendingWorse"))
               => relLast.sc = relLast.sc0 /\ relLast.fc = relLast.fc0
        /\ relLast.wrote => /\ relStatus.successCount = relLast.sc
                            /\ relStatus.failureCount = relLast.fc

\* a passing pass after a failed one: failureCount goes from 1 back to 0
C35_Witness ==
    /\ AnalysisWrote /\ PassAllSuccess
    /\ relLast.fc0 = 1 /\ relLast.sc0 = 0
    /\ relStatus.successCount = 1 /\ relStatus.failureCount = 0

\* C36: once a Release is Progressing and its canary Deployment exists, no
\* handler run performs initial setup again, and none takes status.analysisRun
\* back to its defaults (lastCheck absent, both counters zero).
C36_AsStated ==
    [][(relStatus.phase = "Progressing" /\ relCluster.canaryExists /\ now' = now)
          => /\ relLast'.kind # "setup"
             /\ relStatus.lastCheck # NoTime => relStatus'.lastCheck # NoTime
             /\ relStatus'.successCount >= relStatus.successCount
                    \/ relStatus'.failureCount > relStatus.failureCount]_vars

\* C37: a Release whose phase is Succeeded has been counted once in
\* phgit_rollouts_total{canary, succeeded}, one whose phase is Failed once in
\* phgit_rollouts_total{canary, failed}; no Release is counted in both or twice.
C37_AsStated ==
    /\ relStatus.phase = "Succeeded" => relMetrics.succeeded = 1
    /\ relStatus.phase = "Failed" => relMetrics.failed = 1
    /\ relMetrics.succeeded + relMetrics.failed <= 1

(***************************************************************************)
(* The metrics of the Preview controller (SpecPreview).                    *)
(***************************************************************************)
\* the Previews that passed a health check and whose object is still there,
\* and those among them whose deletion has not been asked for
DeployedLive == {i \in pvMetrics.deployed : pvObj[i].exists}

DeployedKept == {i \in DeployedLive : ~pvObj[i].deleting}

\* C38: phgit_preview_created_total is the number of Previews that were
\* successfully created, each counted once, and phgit_preview_active is the
\* number of Previews deployed and not yet cleaned up (between the ones not
\* under deletion and the ones whose object still exists), never negative.
C38_AsStated ==
    /\ pvMetrics.created = Cardinality(pvMetrics.deployed)
    /\ pvMetrics.active >= 0
    /\ pvMetrics.active >= Cardinality(DeployedKept)
    /\ pvMetrics.active <= Cardinality(DeployedLive)

(***************************************************************************)
(* The replica split (SpecReplicas).                                       *)
(***************************************************************************)
\* C39: without a traffic manager initial setup scales the canary to
\* floor(DEFAULT_REPLICAS * trafficPercent / 100) replicas and the stable
\* Deployment to DEFAULT_REPLICAS minus that, for every trafficPercent in
\* 0..100; the 8-bit arithmetic neither overflows nor underflows, both counts
\* are in 0..5 and sum to DEFAULT_REPLICAS.
C39_AsStated ==
    rpOut.called =>
        /\ ~rpOut.panicked
        /\ rpOut.canary = (DEFAULT_REPLICAS * rpIn) \div 100
        /\ rpOut.stable = DEFAULT_REPLICAS - rpOut.canary
        /\ rpOut.canary \in 0..DEFAULT_REPLICAS
        /\ rpOut.stable \in 0..DEFAULT_REPLICAS
        /\ rpOut.canary + rpOut.stable = DEFAULT_REPLICAS

(***************************************************************************)
(* Properties of the git sync engine (SpecSync).                           *)
(***************************************************************************)
\* C40: a run changes the cursor file only after a successful push, and then
\* both OIDs of the file are the pushed head, which is the head of both
\* repositories; a run that finds both repositories ahead of the sync base,
\* or whose push fails, returns an error and changes neither repository nor
\* the cursor file.
C40_CursorFollowsPush ==
    [][SyncRun =>
          /\ syFile' # syFile =>
                /\ syLast'.push = "ok"
                /\ syFile'.last_source_synced_oid = syLast'.pushed
                /\ syFile'.last_target_synced_oid = syLast'.pushed
                /\ syRepo'.source = syLast'.pushed
                /\ syRepo'.target = syLast'.pushed
          /\ (\/ syLast'.source_ahead > 0 /\ syLast'.target_ahead > 0
              \/ syLast'.push = "err") =>
                /\ syLast'.result = "err"
                /\ syRepo' = syRepo
                /\ syFile' = syFile]_vars

\* a second synchronisation: the cursor stands at the first commit of line a
\* in both repositories, the source has gone on to the second, and the run has
\* pushed it to the target and moved both OIDs of the cursor to it
C40_Witness ==
    /\ syLast.result = "ok" /\ syLast.push = "ok"
    /\ syLast.source_ahead = 1
    /\ syLast.pushed = <<"a", 2>>
    /\ syRepo = [source |-> <<"a", 2>>, target |-> <<"a", 2>>]
    /\ syFile = [last_source_synced_oid |-> <<"a", 2>>,
                 last_target_synced_oid |-> <<"a", 2>>]

====
